---- MODULE Spec2Model ----
(***************************************************************************)
(* A model of rockon-validator: the Rock-on schema and its canonical       *)
(* re-serialization (model/rockon.go), the index reconciler checkRootMap   *)
(* and the orchestrating main loop (main.go).                              *)
(*                                                                         *)
(* Text is modelled as sequences of one-character strings.  A JSON text is *)
(* modelled as its token tree plus its layout (indent width, trailing      *)
(* newline): string and number tokens keep their raw characters, so that   *)
(* escaping, unescaping, numeric coercion and the textual replacements of  *)
(* ToJSON act on the characters they act on in the program.                *)
(***************************************************************************)
EXTENDS Integers, Sequences, FiniteSets, TLC

VARIABLES
    doc,        \* canonicalization pipeline: the input file content
    rockon,     \* canonicalization pipeline: the parsed document
    canon,      \* canonicalization pipeline: the canonical texts produced so far
    cpc,        \* canonicalization pipeline: position
    rootMap,    \* the working map of index entries
    advisories, \* the warnings logged so far, in order
    calls,      \* the calls of checkRootMap made so far: arguments and result
    flags,      \* checkFlag, diffFlag, writeFlag, rootFlag
    args,       \* flag.Args(): the FILE patterns of the command line
    fs,         \* the file system: path -> file
    filePaths,  \* the result of parseFileArgs
    fileIdx,    \* index in filePaths of the file the loop of main is at
    pc,         \* position in main
    origFileContent,  \* content of the file being processed
    rootFile,         \* path of the index file
    indexValidated,   \* the index has been read and decoded
    indexOrigContent, \* the content the index file had when it was read
    diffToValid,      \* some processed document differs from its canonical text
    fileInfo,         \* os.Stat of the last document that reached the comparison
    output,           \* the diffs printed so far
    writes,           \* the os.WriteFile calls made so far
    exitStatus,       \* the exit status of the process, once pc = "done"
    processed         \* the documents compared so far: [path, divergent]

(***************************************************************************)
(* Characters.                                                             *)
(***************************************************************************)
BS == "\\"
QT == "\""

Digits == <<"0", "1", "2", "3", "4", "5", "6", "7", "8", "9">>

IsDigit(c) == \E i \in 1..10 : Digits[i] = c

DigitVal(c) == (CHOOSE i \in 1..10 : Digits[i] = c) - 1

IsHex(c) == IsDigit(c) \/ c \in {"a", "b", "c", "d", "e", "f", "A", "B", "C", "D", "E", "F"}

Upper == <<"A", "B", "C", "D", "E", "F", "G", "H", "I", "J", "K", "L", "M",
           "N", "O", "P", "Q", "R", "S", "T", "U", "V", "W", "X", "Y", "Z">>
Lower == <<"a", "b", "c", "d", "e", "f", "g", "h", "i", "j", "k", "l", "m",
           "n", "o", "p", "q", "r", "s", "t", "u", "v", "w", "x", "y", "z">>

\* unicode.ToLower on one character
ToLowerChar(c) ==
    IF \E i \in 1..26 : Upper[i] = c
    THEN Lower[CHOOSE i \in 1..26 : Upper[i] = c]
    ELSE c

\* strings.ToLower
ToLower(s) == [i \in 1..Len(s) |-> ToLowerChar(s[i])]

\* the byte order of the characters the model sorts (map keys)
CharOrder == <<"\t", "\n", "\r", " ", "\"", "&", "-", ".", "/">> \o Digits \o
             <<"<", ">">> \o Upper \o <<"\\", "_">> \o Lower

CharRank(c) == CHOOSE i \in 1..Len(CharOrder) : CharOrder[i] = c

RECURSIVE StrLess(_, _)
\* s < t in Go's string order (bytewise)
StrLess(s, t) ==
    IF t = <<>> THEN FALSE
    ELSE IF s = <<>> THEN TRUE
    ELSE IF s[1] = t[1] THEN StrLess(Tail(s), Tail(t))
    ELSE CharRank(s[1]) < CharRank(t[1])

HasPrefix(s, p) == Len(s) >= Len(p) /\ SubSeq(s, 1, Len(p)) = p

Contains(s, p) == \E i \in 1..(Len(s) - Len(p) + 1) : SubSeq(s, i, i + Len(p) - 1) = p

\* strings.Index(s, p): the first position at which p occurs in s, 0 when it
\* does not occur
Index(s, p) ==
    IF Contains(s, p)
    THEN CHOOSE i \in 1..(Len(s) - Len(p) + 1) :
             /\ SubSeq(s, i, i + Len(p) - 1) = p
             /\ \A j \in 1..(i - 1) : SubSeq(s, j, j + Len(p) - 1) # p
    ELSE 0

RECURSIVE ReplaceAll(_, _, _)
\* strings.ReplaceAll(s, old, new), for a non-empty old: the occurrences of
\* old are replaced from the left, none overlapping another
ReplaceAll(s, old, new) ==
    LET i == Index(s, old) IN
    IF i = 0 THEN s
    ELSE SubSeq(s, 1, i - 1) \o new \o ReplaceAll(SubSeq(s, i + Len(old), Len(s)), old, new)

(***************************************************************************)
(* JSON string tokens (encoding/json: appendString and unquote).  A token  *)
(* is the raw text between the two quotes.                                 *)
(***************************************************************************)
\* The characters encoding/json writes for one character of a Go string.
EncodeChar(c, escapeHTML) ==
    CASE c = QT -> <<BS, QT>>
      [] c = BS -> <<BS, BS>>
      [] c = "\n" -> <<BS, "n">>
      [] c = "\r" -> <<BS, "r">>
      [] c = "\t" -> <<BS, "t">>
      [] c = "<" /\ escapeHTML -> <<BS, "u", "0", "0", "3", "c">>
      [] c = ">" /\ escapeHTML -> <<BS, "u", "0", "0", "3", "e">>
      [] c = "&" /\ escapeHTML -> <<BS, "u", "0", "0", "2", "6">>
      [] OTHER -> <<c>>

RECURSIVE EncodeString(_, _)
\* the characters written for a Go string: those of its characters, in order
EncodeString(s, escapeHTML) ==
    IF s = <<>> THEN <<>>
    ELSE IF Len(s) = 1 THEN EncodeChar(s[1], escapeHTML)
    ELSE LET h == Len(s) \div 2 IN
         EncodeString(SubSeq(s, 1, h), escapeHTML) \o EncodeString(SubSeq(s, h + 1, Len(s)), escapeHTML)

\* The character a \uXXXX escape stands for; escapes of characters outside
\* the model's alphabet decode to the replacement character.
UnicodeChar(h) ==
    LET l == ToLower(h) IN
    CASE l = <<"0", "0", "2", "6">> -> "&"
      [] l = <<"0", "0", "3", "c">> -> "<"
      [] l = <<"0", "0", "3", "e">> -> ">"
      [] l = <<"0", "0", "2", "2">> -> QT
      [] l = <<"0", "0", "5", "c">> -> BS
      [] l = <<"0", "0", "2", "f">> -> "/"
      [] l = <<"0", "0", "2", "0">> -> " "
      [] OTHER -> "?"

\* Length of the escape sequence at the head of s (s[1] is a backslash),
\* 0 when it is not a valid JSON escape.
EscapeLen(s) ==
    IF Len(s) < 2 THEN 0
    ELSE IF s[2] \in {QT, BS, "/", "b", "f", "n", "r", "t"} THEN 2
    ELSE IF s[2] = "u" /\ Len(s) >= 6 /\ \A i \in 3..6 : IsHex(s[i]) THEN 6
    ELSE 0

EscapeChar(s) ==
    CASE s[2] = "n" -> "\n"
      [] s[2] = "r" -> "\r"
      [] s[2] = "t" -> "\t"
      [] s[2] = "b" -> "^H"
      [] s[2] = "f" -> "^L"
      [] s[2] = "u" -> UnicodeChar(SubSeq(s, 3, 6))
      [] OTHER -> s[2]

\* index of the first character of s that is c, 0 when there is none
IndexOf(s, c) ==
    IF \E i \in 1..Len(s) : s[i] = c
    THEN CHOOSE i \in 1..Len(s) : s[i] = c /\ \A j \in 1..(i - 1) : s[j] # c
    ELSE 0

RECURSIVE ValidStringToken(_)
\* the scanner's rule for the inside of a string literal: no quote and no
\* control character outside an escape, and valid escapes only
ValidStringToken(raw) ==
    LET b == IndexOf(raw, BS)
        plain == IF b = 0 THEN raw ELSE SubSeq(raw, 1, b - 1)
        rest == SubSeq(raw, b, Len(raw))
    IN /\ \A i \in 1..Len(plain) : plain[i] \notin {QT, "\n", "\r", "\t"}
       /\ b # 0 => (EscapeLen(rest) > 0
                     /\ ValidStringToken(SubSeq(rest, EscapeLen(rest) + 1, Len(rest))))

RECURSIVE Unquote(_)
\* the Go string a valid token stands for: the characters up to the first
\* escape, the character of the escape, and the rest unquoted
Unquote(raw) ==
    LET b == IndexOf(raw, BS)
        rest == SubSeq(raw, b, Len(raw))
    IN IF b = 0 THEN raw
       ELSE SubSeq(raw, 1, b - 1) \o <<EscapeChar(rest)>>
            \o Unquote(SubSeq(rest, EscapeLen(rest) + 1, Len(rest)))

(***************************************************************************)
(* Number tokens and strconv.                                              *)
(***************************************************************************)
AllDigits(s) == s # <<>> /\ \A i \in 1..Len(s) : IsDigit(s[i])

\* a JSON integer part: 0, or a non-zero digit followed by digits
ValidIntPart(s) == AllDigits(s) /\ (Len(s) = 1 \/ s[1] # "0")

\* the JSON number grammar: -? int (. digits)? ([eE] [+-]? digits)?
ValidNumberToken(raw) ==
    LET u == IF raw # <<>> /\ raw[1] = "-" THEN Tail(raw) ELSE raw
        l == ToLower(u)
        e == IndexOf(l, "e")
        mant == IF e = 0 THEN u ELSE SubSeq(u, 1, e - 1)
        ex == IF e = 0 THEN <<>> ELSE SubSeq(u, e + 1, Len(u))
        exd == IF ex # <<>> /\ ex[1] \in {"+", "-"} THEN Tail(ex) ELSE ex
        d == IndexOf(mant, ".")
        ip == IF d = 0 THEN mant ELSE SubSeq(mant, 1, d - 1)
        fp == IF d = 0 THEN <<>> ELSE SubSeq(mant, d + 1, Len(mant))
    IN /\ ValidIntPart(ip)
       /\ (d # 0 => AllDigits(fp))
       /\ (e # 0 => AllDigits(exd))

RECURSIVE DigitsValue(_)
DigitsValue(s) ==
    IF s = <<>> THEN 0
    ELSE 10 * DigitsValue(SubSeq(s, 1, Len(s) - 1)) + DigitVal(s[Len(s)])

\* strconv.ParseUint(s, 10, 0): decimal digits only, no sign.  The model's
\* numerals stay far below the range of uint, so its range error is not modelled.
ParseUint(s) ==
    IF AllDigits(s) THEN [err |-> FALSE, n |-> DigitsValue(s)]
    ELSE [err |-> TRUE, n |-> 0]

\* strconv.ParseInt(s, 10, 64), as encoding/json uses it to decode into an int
ParseInt(s) ==
    LET neg == s # <<>> /\ s[1] \in {"-", "+"}
        u == IF neg THEN Tail(s) ELSE s
    IN IF AllDigits(u)
       THEN [err |-> FALSE, n |-> IF neg /\ s[1] = "-" THEN 0 - DigitsValue(u) ELSE DigitsValue(u)]
       ELSE [err |-> TRUE, n |-> 0]

RECURSIVE FormatUint(_)
\* strconv.FormatUint(n, 10)
FormatUint(n) ==
    IF n < 10 THEN <<Digits[n + 1]>>
    ELSE FormatUint(n \div 10) \o <<Digits[(n % 10) + 1]>>

\* strconv.Itoa
Itoa(n) == IF n < 0 THEN <<"-">> \o FormatUint(0 - n) ELSE FormatUint(n)

(***************************************************************************)
(* JSON texts as token trees.                                              *)
(***************************************************************************)
JStr(raw) == [t |-> "string", raw |-> raw]
JNum(raw) == [t |-> "number", raw |-> raw]
JBool(b) == [t |-> "bool", b |-> b]
JNull == [t |-> "null"]
JArr(elems) == [t |-> "array", elems |-> elems]
JObj(members) == [t |-> "object", members |-> members]
Member(k, v) == [k |-> k, v |-> v]
\* bytes that are no JSON text at all
JGarbage == [t |-> "garbage"]

RECURSIVE Valid(_)
\* json.Valid
Valid(j) ==
    CASE j.t = "string" -> ValidStringToken(j.raw)
      [] j.t = "number" -> ValidNumberToken(j.raw)
      [] j.t = "bool" -> TRUE
      [] j.t = "null" -> TRUE
      [] j.t = "array" -> \A i \in 1..Len(j.elems) : Valid(j.elems[i])
      [] j.t = "object" -> \A i \in 1..Len(j.members) :
                               /\ ValidStringToken(j.members[i].k)
                               /\ Valid(j.members[i].v)
      [] OTHER -> FALSE

(***************************************************************************)
(* The schema of model/rockon.go, as type descriptors: kind, element type, *)
(* and for a struct its fields in declaration order with their json tags.  *)
(***************************************************************************)
N_description == <<"d", "e", "s", "c", "r", "i", "p", "t", "i", "o", "n">>
N_version == <<"v", "e", "r", "s", "i", "o", "n">>
N_website == <<"w", "e", "b", "s", "i", "t", "e">>
N_icon == <<"i", "c", "o", "n">>
N_more_info == <<"m", "o", "r", "e", "_", "i", "n", "f", "o">>
N_ui == <<"u", "i">>
N_volume_add_support == <<"v", "o", "l", "u", "m", "e", "_", "a", "d", "d", "_", "s", "u", "p", "p", "o", "r", "t">>
N_containers == <<"c", "o", "n", "t", "a", "i", "n", "e", "r", "s">>
N_container_links == <<"c", "o", "n", "t", "a", "i", "n", "e", "r", "_", "l", "i", "n", "k", "s">>
N_custom_config == <<"c", "u", "s", "t", "o", "m", "_", "c", "o", "n", "f", "i", "g">>
N_https == <<"h", "t", "t", "p", "s">>
N_slug == <<"s", "l", "u", "g">>
N_image == <<"i", "m", "a", "g", "e">>
N_tag == <<"t", "a", "g">>
N_launch_order == <<"l", "a", "u", "n", "c", "h", "_", "o", "r", "d", "e", "r">>
N_ports == <<"p", "o", "r", "t", "s">>
N_volumes == <<"v", "o", "l", "u", "m", "e", "s">>
N_opts == <<"o", "p", "t", "s">>
N_cmd_arguments == <<"c", "m", "d", "_", "a", "r", "g", "u", "m", "e", "n", "t", "s">>
N_environment == <<"e", "n", "v", "i", "r", "o", "n", "m", "e", "n", "t">>
N_devices == <<"d", "e", "v", "i", "c", "e", "s">>
N_label == <<"l", "a", "b", "e", "l">>
N_host_default == <<"h", "o", "s", "t", "_", "d", "e", "f", "a", "u", "l", "t">>
N_protocol == <<"p", "r", "o", "t", "o", "c", "o", "l">>
N_min_size == <<"m", "i", "n", "_", "s", "i", "z", "e">>
N_index == <<"i", "n", "d", "e", "x">>
N_default == <<"d", "e", "f", "a", "u", "l", "t">>
N_name == <<"n", "a", "m", "e">>
N_source_container == <<"s", "o", "u", "r", "c", "e", "_", "c", "o", "n", "t", "a", "i", "n", "e", "r">>

TString == [k |-> "string"]
TBool == [k |-> "bool"]
TArray(n, elem) == [k |-> "array", n |-> n, elem |-> elem]
TSlice(elem) == [k |-> "slice", elem |-> elem]
TMap(elem) == [k |-> "map", elem |-> elem]
TPtr(elem) == [k |-> "ptr", elem |-> elem]
TStruct(fields, marshaler) == [k |-> "struct", fields |-> fields, marshaler |-> marshaler]
Field(go, name, omitempty, type) == [go |-> go, name |-> name, omitempty |-> omitempty, type |-> type]

\* type UintValue uint, with UintValue.UnmarshalJSON
UintValue == [k |-> "UintValue"]
\* type StrValue string, with StrValue.UnmarshalJSON
StrValue == [k |-> "StrValue"]
Protocol == TString
Option == TArray(2, TString)
CmdArgument == TArray(2, TString)

UISlug == TStruct(<<
    Field("Https", N_https, TRUE, TBool),
    Field("Slug", N_slug, TRUE, TString)>>, FALSE)

Port == TStruct(<<
    Field("Description", N_description, FALSE, TString),
    Field("Label", N_label, FALSE, TString),
    Field("HostDefault", N_host_default, FALSE, UintValue),
    Field("Protocol", N_protocol, TRUE, Protocol),
    Field("UI", N_ui, TRUE, TBool)>>, FALSE)

Volume == TStruct(<<
    Field("Description", N_description, FALSE, TString),
    Field("Label", N_label, FALSE, TString),
    Field("MinSize", N_min_size, TRUE, UintValue)>>, FALSE)

EnvironmentVar == TStruct(<<
    Field("Description", N_description, FALSE, TString),
    Field("Label", N_label, FALSE, TString),
    Field("Index", N_index, TRUE, UintValue),
    Field("Default", N_default, TRUE, StrValue)>>, FALSE)

Device == TStruct(<<
    Field("Description", N_description, FALSE, TString),
    Field("Label", N_label, FALSE, TString),
    Field("Index", N_index, TRUE, UintValue)>>, FALSE)

CustomConfig == TStruct(<<
    Field("Description", N_description, FALSE, TString),
    Field("Label", N_label, FALSE, TString)>>, FALSE)

ContainerLink == TStruct(<<
    Field("Name", N_name, FALSE, TString),
    Field("SourceContainer", N_source_container, FALSE, TString)>>, FALSE)

Container == TStruct(<<
    Field("Image", N_image, FALSE, TString),
    Field("Tag", N_tag, TRUE, TString),
    Field("LaunchOrder", N_launch_order, FALSE, UintValue),
    Field("Ports", N_ports, FALSE, TMap(Port)),
    Field("Volumes", N_volumes, TRUE, TMap(Volume)),
    Field("Opts", N_opts, TRUE, TSlice(Option)),
    Field("CmdArguments", N_cmd_arguments, TRUE, TSlice(CmdArgument)),
    Field("Environment", N_environment, TRUE, TMap(EnvironmentVar)),
    Field("Devices", N_devices, TRUE, TMap(Device))>>, FALSE)

RockonDetailsFields == <<
    Field("Description", N_description, FALSE, TString),
    Field("Version", N_version, FALSE, TString),
    Field("Website", N_website, FALSE, TString),
    Field("Icon", N_icon, TRUE, TString),
    Field("MoreInfo", N_more_info, TRUE, TString),
    Field("UI", N_ui, TRUE, TPtr(UISlug)),
    Field("VolumeAddSupport", N_volume_add_support, TRUE, TBool),
    Field("Containers", N_containers, FALSE, TMap(Container)),
    Field("ContainerLinks", N_container_links, TRUE, TMap(TSlice(ContainerLink))),
    Field("CustomConfig", N_custom_config, TRUE, TMap(CustomConfig))>>

\* RockonDetails has a MarshalJSON method; the local type ro of that method
\* is the same struct without it.
RockonDetails == TStruct(RockonDetailsFields, TRUE)
ro == TStruct(RockonDetailsFields, FALSE)

\* type RockOn map[string]RockonDetails
RockOn == TMap(RockonDetails)

(***************************************************************************)
(* Go values: a string is its characters, a struct a function of its Go    *)
(* field names, a map / slice / pointer a record that says whether it is   *)
(* nil.                                                                    *)
(***************************************************************************)
EmptyMap == [x \in {} |-> 0]
NilMap == [nil |-> TRUE, m |-> EmptyMap]
MakeMap(m) == [nil |-> FALSE, m |-> m]
MapPut(m, key, v) == [x \in (DOMAIN m) \cup {key} |-> IF x = key THEN v ELSE m[x]]
MapDelete(m, key) == [x \in (DOMAIN m) \ {key} |-> m[x]]

FieldNames(t) == {t.fields[i].go : i \in 1..Len(t.fields)}
FieldOf(t, go) == t.fields[CHOOSE i \in 1..Len(t.fields) : t.fields[i].go = go]

RECURSIVE Zero(_)
\* the zero value of a type
Zero(t) ==
    CASE t.k = "string" -> <<>>
      [] t.k = "StrValue" -> <<>>
      [] t.k = "bool" -> FALSE
      [] t.k = "UintValue" -> 0
      [] t.k = "array" -> [i \in 1..t.n |-> Zero(t.elem)]
      [] t.k = "slice" -> [nil |-> TRUE, elems |-> <<>>]
      [] t.k = "map" -> NilMap
      [] t.k = "ptr" -> [nil |-> TRUE, v |-> Zero(t.elem)]
      [] t.k = "struct" -> [g \in FieldNames(t) |-> Zero(FieldOf(t, g).type)]

(***************************************************************************)
(* json.Unmarshal into a value of the schema.  A result is [err, v]; the   *)
(* callers discard the value when err is set, so a failed decode returns   *)
(* the value it was given.                                                 *)
(***************************************************************************)
Ok(v) == [err |-> FALSE, v |-> v]
Err(v) == [err |-> TRUE, v |-> v]

\* a faulty UintValue decoder that takes number tokens only, as a plain
\* uint field does
UintValue_NumbersOnly(j, cur) ==
    LET r == ParseUint(IF j.t = "number" THEN j.raw ELSE <<"n">>)
    IN IF r.err THEN Err(cur) ELSE Ok(r.n)

\* a faulty UintValue decoder that leaves the field alone when the text is
\* no unsigned integer
UintValue_Lenient(j, cur) ==
    LET r == ParseUint(IF j.t = "string" THEN Unquote(j.raw)
                       ELSE IF j.t = "number" THEN j.raw ELSE <<"n">>)
    IN IF r.err THEN Ok(cur) ELSE Ok(r.n)

\* func (u *UintValue) UnmarshalJSON(data []byte) error.  data is the text of
\* the JSON value: a string token is unquoted first, and the text of a
\* literal, an object or an array starts with no digit, so ParseUint fails.
UintValue_UnmarshalJSON(j, cur) ==
    LET s == IF j.t = "string" THEN Unquote(j.raw)
             ELSE IF j.t = "number" THEN j.raw
             ELSE <<"n">>
        r == ParseUint(s)
    IN IF r.err THEN Err(cur) ELSE Ok(r.n)

\* a faulty StrValue decoder that takes string tokens only, as a plain
\* string field does
StrValue_StringsOnly(j, cur) ==
    IF j.t = "string" THEN Ok(Unquote(j.raw))
    ELSE IF j.t = "null" THEN Ok(cur) ELSE Err(cur)

\* func (s *StrValue) UnmarshalJSON(data []byte) error.  Anything but a
\* string token is decoded into an int: a number token must be an integer
\* literal, null leaves the int zero, every other value is a type error.
StrValue_UnmarshalJSON(j, cur) ==
    IF j.t = "string" THEN Ok(Unquote(j.raw))
    ELSE LET tmp == CASE j.t = "number" -> ParseInt(j.raw)
                      [] j.t = "null" -> [err |-> FALSE, n |-> 0]
                      [] OTHER -> [err |-> TRUE, n |-> 0]
         IN IF tmp.err THEN Err(cur) ELSE Ok(Itoa(tmp.n))

\* the struct field a JSON key selects: the exact name first, then the
\* case-folded name; 0 when the key names no field
FieldIndex(t, key) ==
    IF \E i \in 1..Len(t.fields) : t.fields[i].name = key
    THEN CHOOSE i \in 1..Len(t.fields) : t.fields[i].name = key
    ELSE IF \E i \in 1..Len(t.fields) : ToLower(t.fields[i].name) = ToLower(key)
    THEN CHOOSE i \in 1..Len(t.fields) : ToLower(t.fields[i].name) = ToLower(key)
    ELSE 0

RECURSIVE Decode(_, _, _)
RECURSIVE DecodeField(_, _, _)
RECURSIVE DecodeMap(_, _, _)

\* decoding into one field the members that select it, in order: a member
\* is decoded into the value the member before it left
DecodeField(type, members, cur) ==
    IF members = <<>> THEN Ok(cur)
    ELSE LET r == Decode(type, members[1].v, cur) IN
         IF r.err THEN Err(cur) ELSE DecodeField(type, Tail(members), r.v)

\* decoding the members of a JSON object into a struct: every member goes
\* to the field its key selects, a key that selects none is skipped, and a
\* field no member selects keeps its value
DecodeStruct(t, members, cur) ==
    LET of(i) == SelectSeq(members, LAMBDA mb : FieldIndex(t, Unquote(mb.k)) = i)
        r == [i \in 1..Len(t.fields) |->
                 DecodeField(t.fields[i].type, of(i), cur[t.fields[i].go])]
    IN IF \E i \in 1..Len(t.fields) : r[i].err THEN Err(cur)
       ELSE Ok([g \in DOMAIN cur |->
                   IF \E i \in 1..Len(t.fields) : t.fields[i].go = g
                   THEN r[CHOOSE i \in 1..Len(t.fields) : t.fields[i].go = g].v
                   ELSE cur[g]])

\* decoding the members of a JSON object into a map: every element is
\* decoded into a fresh zero value and stored under its key
DecodeMap(t, members, m) ==
    IF members = <<>> THEN Ok(MakeMap(m))
    ELSE LET r == Decode(t.elem, members[1].v, Zero(t.elem)) IN
         IF r.err THEN Err(MakeMap(m))
         ELSE DecodeMap(t, Tail(members), MapPut(m, Unquote(members[1].k), r.v))

\* decoding a JSON array into a slice (elements beyond the current length
\* start from zero) or into a fixed array (missing elements are zeroed,
\* surplus elements are skipped)
DecodeElems(t, elems, cur, n) ==
    LET r == [i \in 1..n |->
                 IF i <= Len(elems)
                 THEN Decode(t.elem, elems[i], IF i <= Len(cur) THEN cur[i] ELSE Zero(t.elem))
                 ELSE Ok(Zero(t.elem))]
    IN IF \E i \in 1..n : r[i].err THEN Err(cur) ELSE Ok([i \in 1..n |-> r[i].v])

\* encoding/json's decoding of the JSON value j into a value cur of type t
Decode(t, j, cur) ==
    CASE t.k = "UintValue" -> UintValue_UnmarshalJSON(j, cur)
      [] t.k = "StrValue" -> StrValue_UnmarshalJSON(j, cur)
      [] t.k \notin {"UintValue", "StrValue"} /\ j.t = "null" ->
             IF t.k \in {"map", "slice", "ptr"} THEN Ok(Zero(t)) ELSE Ok(cur)
      [] t.k = "string" /\ j.t # "null" ->
             IF j.t = "string" THEN Ok(Unquote(j.raw)) ELSE Err(cur)
      [] t.k = "bool" /\ j.t # "null" ->
             IF j.t = "bool" THEN Ok(j.b) ELSE Err(cur)
      [] t.k = "ptr" /\ j.t # "null" ->
             LET r == Decode(t.elem, j, cur.v) IN
             IF r.err THEN Err(cur) ELSE Ok([nil |-> FALSE, v |-> r.v])
      [] t.k = "struct" /\ j.t # "null" ->
             IF j.t = "object" THEN DecodeStruct(t, j.members, cur) ELSE Err(cur)
      [] t.k = "map" /\ j.t # "null" ->
             IF j.t = "object" THEN DecodeMap(t, j.members, cur.m) ELSE Err(cur)
      [] t.k = "slice" /\ j.t # "null" ->
             IF j.t = "array"
             THEN LET r == DecodeElems(t, j.elems, cur.elems, Len(j.elems)) IN
                  IF r.err THEN Err(cur) ELSE Ok([nil |-> FALSE, elems |-> r.v])
             ELSE Err(cur)
      [] t.k = "array" /\ j.t # "null" ->
             IF j.t = "array" THEN DecodeElems(t, j.elems, cur, t.n) ELSE Err(cur)

\* json.Unmarshal(data, &v): the text is checked for syntax before anything
\* is decoded
Unmarshal(t, data, cur) ==
    IF ~Valid(data.tree) THEN Err(cur) ELSE Decode(t, data.tree, cur)

(***************************************************************************)
(* json.Marshal / Encoder.Encode of a value of the schema.                 *)
(***************************************************************************)
\* the omitempty rule
IsEmptyValue(t, v) ==
    CASE t.k \in {"string", "StrValue"} -> v = <<>>
      [] t.k = "bool" -> ~v
      [] t.k = "UintValue" -> v = 0
      [] t.k = "ptr" -> v.nil
      [] t.k = "slice" -> Len(v.elems) = 0
      [] t.k = "map" -> DOMAIN v.m = {}
      [] t.k = "array" -> t.n = 0
      [] OTHER -> FALSE

RECURSIVE SortedKeys(_)
\* the keys of a map in the order the encoder writes them
SortedKeys(S) ==
    IF S = {} THEN <<>>
    ELSE LET least == CHOOSE x \in S : \A y \in S \ {x} : StrLess(x, y)
         IN <<least>> \o SortedKeys(S \ {least})

\* the fields of a struct value that are written, from the i-th on, in
\* declaration order
KeepFields(fields, v, i) ==
    SelectSeq(SubSeq(fields, i, Len(fields)),
              LAMBDA f : ~(f.omitempty /\ IsEmptyValue(f.type, v[f.go])))

\* a faulty MarshalJSON that keeps the pointer to an empty UISlug
KeepEmptyUI(r) == r

\* if r.UI != nil && *r.UI == (UISlug{}) { r.UI = nil }
DropEmptyUI(r) ==
    IF ~r.UI.nil /\ r.UI.v = Zero(UISlug)
    THEN [r EXCEPT !.UI = Zero(TPtr(UISlug))]
    ELSE r

RECURSIVE Marshal(_, _, _)

\* func (r RockonDetails) MarshalJSON() ([]byte, error): json.Marshal escapes
\* HTML characters whatever the calling encoder was told
RockonDetails_MarshalJSON(r) == Marshal(ro, DropEmptyUI(r), TRUE)

\* the JSON text the encoder writes for the value v of type t
Marshal(t, v, escapeHTML) ==
    CASE t.k \in {"string", "StrValue"} -> JStr(EncodeString(v, escapeHTML))
      [] t.k = "bool" -> JBool(v)
      [] t.k = "UintValue" -> JNum(FormatUint(v))
      [] t.k = "ptr" -> IF v.nil THEN JNull ELSE Marshal(t.elem, v.v, escapeHTML)
      [] t.k = "slice" ->
             IF v.nil THEN JNull
             ELSE JArr([i \in 1..Len(v.elems) |-> Marshal(t.elem, v.elems[i], escapeHTML)])
      [] t.k = "array" -> JArr([i \in 1..t.n |-> Marshal(t.elem, v[i], escapeHTML)])
      [] t.k = "map" ->
             IF v.nil THEN JNull
             ELSE LET keys == SortedKeys(DOMAIN v.m) IN
                  JObj([i \in 1..Len(keys) |->
                           Member(EncodeString(keys[i], escapeHTML),
                                  Marshal(t.elem, v.m[keys[i]], escapeHTML))])
      [] t.k = "struct" ->
             IF t.marshaler THEN RockonDetails_MarshalJSON(v)
             ELSE LET kept == KeepFields(t.fields, v, 1) IN
                  JObj([i \in 1..Len(kept) |->
                           Member(kept[i].name, Marshal(kept[i].type, v[kept[i].go], escapeHTML))])

\* a JSON text: its tokens and its layout
Text(tree, indent, newline) == [tree |-> tree, indent |-> indent, newline |-> newline]

RECURSIVE ReplaceAllText(_, _, _)
\* strings.ReplaceAll over a JSON text, for an old that starts with a
\* backslash and holds no quote: a match lies inside one string token
ReplaceAllText(j, old, new) ==
    CASE j.t = "string" -> JStr(ReplaceAll(j.raw, old, new))
      [] j.t = "array" -> JArr([i \in 1..Len(j.elems) |-> ReplaceAllText(j.elems[i], old, new)])
      [] j.t = "object" ->
             JObj([i \in 1..Len(j.members) |->
                      Member(ReplaceAll(j.members[i].k, old, new),
                             ReplaceAllText(j.members[i].v, old, new))])
      [] OTHER -> j

IndentWidth == 4

\* a faulty ToJSON that returns the encoder's text as it is
ToJSON_Escaped(r) == Text(Marshal(RockOn, r, FALSE), IndentWidth, TRUE)

\* func (r RockOn) ToJSON() (string, error)
ToJSON(r) ==
    LET tmp == Marshal(RockOn, r, FALSE)
        out1 == ReplaceAllText(tmp, <<BS, "u", "0", "0", "2", "6">>, <<"&">>)
        out2 == ReplaceAllText(out1, <<BS, "u", "0", "0", "3", "c">>, <<"<">>)
        out3 == ReplaceAllText(out2, <<BS, "u", "0", "0", "3", "e">>, <<">">>)
    IN Text(out3, IndentWidth, TRUE)

(***************************************************************************)
(* Input documents.  A document is assembled from a title, the token of    *)
(* its description, the value of launch_order, a set of optional members   *)
(* and a layout.                                                           *)
(***************************************************************************)
S_Foo == <<"F", "o", "o">>
S_Bar == <<"B", "a", "r">>
S_AmpTitle == <<"A", "&", "B">>
S_d == <<"d">>
S_v == <<"v">>
S_w == <<"w">>
S_img == <<"i", "m", "g">>
S_c1 == <<"c", "1">>
S_80 == <<"8", "0">>
S_gui == <<"g", "u", "i">>
S_data == <<"d", "a", "t", "a">>
S_net == <<"-", "-", "n", "e", "t">>
S_host == <<"h", "o", "s", "t">>
S_tcp == <<"t", "c", "p">>
S_PUID == <<"P", "U", "I", "D">>
S_dev == <<"d", "e", "v">>
S_html == <<"<", "p", ">", "&">>
\* the token \u0026: an escaped ampersand
T_EscapedAmp == <<BS, "u", "0", "0", "2", "6">>
\* the token \\u0026: a backslash followed by the characters u0026
T_BackslashU0026 == <<BS, BS, "u", "0", "0", "2", "6">>
\* the token \\u003c: a backslash followed by the characters u003c
T_BackslashU003c == <<BS, BS, "u", "0", "0", "3", "c">>

EmptyUI == JObj(<<Member(N_https, JBool(FALSE)), Member(N_slug, JStr(<<>>))>>)

PortJ(extra) ==
    JObj(<<Member(N_description, JStr(S_d)),
           Member(N_label, JStr(S_w)),
           Member(N_host_default, JNum(<<"8", "0">>))>> \o extra)

ContainerJ(launch, extra) ==
    JObj(<<Member(N_image, JStr(S_img)),
           Member(N_launch_order, launch),
           Member(N_ports, JObj(<<Member(S_80, PortJ(<<>>))>>))>> \o extra)

\* the optional members a document of the pool carries: [detail, container]
OptionalSets == {
    [detail |-> <<>>, container |-> <<>>],
    [detail |-> <<Member(N_ui, EmptyUI)>>, container |-> <<>>],
    [detail |-> <<Member(N_ui, JObj(<<>>)), Member(N_icon, JStr(<<>>)),
                  Member(N_more_info, JStr(<<>>)), Member(N_volume_add_support, JBool(FALSE))>>,
     container |-> <<Member(N_tag, JStr(<<>>))>>],
    [detail |-> <<Member(N_ui, JObj(<<Member(N_slug, JStr(S_gui))>>)),
                  Member(N_icon, JStr(S_html)), Member(N_volume_add_support, JBool(TRUE))>>,
     container |-> <<>>],
    [detail |-> <<Member(N_container_links, JObj(<<>>)), Member(N_custom_config, JObj(<<>>))>>,
     container |-> <<Member(N_volumes, JObj(<<>>)), Member(N_opts, JArr(<<>>)),
                     Member(N_cmd_arguments, JArr(<<>>)), Member(N_environment, JObj(<<>>)),
                     Member(N_devices, JObj(<<>>))>>],
    [detail |-> <<>>,
     container |-> <<Member(N_volumes, JObj(<<Member(S_data,
                         JObj(<<Member(N_description, JStr(S_d)), Member(N_label, JStr(S_w)),
                                Member(N_min_size, JNum(<<"0">>))>>))>>)),
                     Member(N_environment, JObj(<<Member(S_PUID,
                         JObj(<<Member(N_description, JStr(S_d)), Member(N_label, JStr(S_w)),
                                Member(N_index, JStr(<<"0">>)), Member(N_default, JStr(<<>>))>>))>>))>>],
    [detail |-> <<Member(N_container_links, JObj(<<Member(S_c1, JArr(<<
                         JObj(<<Member(N_name, JStr(S_d)),
                                Member(N_source_container, JStr(S_c1))>>)>>))>>)),
                  Member(N_custom_config, JObj(<<Member(S_d,
                         JObj(<<Member(N_description, JStr(S_html)), Member(N_label, JStr(S_w))>>))>>))>>,
     container |-> <<Member(N_volumes, JObj(<<Member(S_data,
                         JObj(<<Member(N_description, JStr(S_d)), Member(N_label, JStr(S_w)),
                                Member(N_min_size, JStr(<<"0", "5">>))>>))>>)),
                     Member(N_opts, JArr(<<JArr(<<JStr(S_net), JStr(S_host)>>)>>)),
                     Member(N_cmd_arguments, JArr(<<JArr(<<JStr(S_d), JStr(S_html)>>)>>)),
                     Member(N_environment, JObj(<<Member(S_PUID,
                         JObj(<<Member(N_description, JStr(S_d)), Member(N_label, JStr(S_w)),
                                Member(N_index, JNum(<<"2">>)), Member(N_default, JNum(<<"5">>))>>))>>)),
                     Member(N_devices, JObj(<<Member(S_dev,
                         JObj(<<Member(N_description, JStr(S_d)), Member(N_label, JStr(S_w)),
                                Member(N_index, JStr(<<"3">>))>>))>>))>>]
    }

Titles == {S_Foo, S_AmpTitle}

DescriptionTokens == {S_d, S_html, T_EscapedAmp, T_BackslashU0026, T_BackslashU003c}

LaunchOrders == {JNum(<<"1">>), JStr(<<"1">>), JNum(<<"1", "2">>), JStr(<<"0", "1", "2">>), JNum(<<"0">>),
                 JNum(<<"1", ".", "5">>)}

Indents == {2, IndentWidth}

\* the members of a Rock-on's details, in the order of the schema or with
\* the containers first
DetailJ(desc, launch, opt, schemaOrder) ==
    LET head == <<Member(N_description, JStr(desc)),
                  Member(N_version, JStr(S_v)),
                  Member(N_website, JStr(S_w))>>
        cont == <<Member(N_containers, JObj(<<Member(S_c1, ContainerJ(launch, opt.container))>>))>>
    IN IF schemaOrder THEN JObj(head \o cont \o opt.detail)
       ELSE JObj(cont \o opt.detail \o head)

DocumentJ(title, desc, launch, opt, schemaOrder) ==
    JObj(<<Member(title, DetailJ(desc, launch, opt, schemaOrder))>>)

DocPool ==
    {Text(DocumentJ(title, desc, launch, opt, so), ind, nl) :
        title \in Titles, desc \in DescriptionTokens, launch \in LaunchOrders,
        opt \in OptionalSets, so \in BOOLEAN, ind \in Indents, nl \in BOOLEAN}

RECURSIVE DropKey(_, _)
\* the JSON value j without the members named key, at every depth
DropKey(j, key) ==
    CASE j.t = "object" ->
             JObj([i \in 1..Len(SelectSeq(j.members, LAMBDA mb : mb.k # key)) |->
                      LET mb == SelectSeq(j.members, LAMBDA x : x.k # key)[i]
                      IN Member(mb.k, DropKey(mb.v, key))])
      [] j.t = "array" -> JArr([i \in 1..Len(j.elems) |-> DropKey(j.elems[i], key)])
      [] OTHER -> j

\* a complete document with one option and one command argument
WithPairs(opt, cmd) ==
    DocumentJ(S_Foo, S_d, JNum(<<"1">>),
              [detail |-> <<>>,
               container |-> <<Member(N_opts, JArr(<<opt>>)), Member(N_cmd_arguments, JArr(<<cmd>>))>>],
              TRUE)

\* the fields the schema writes without omitempty
RequiredNames == {N_description, N_version, N_website, N_containers, N_image, N_launch_order,
                  N_ports, N_label, N_host_default}

\* lists of one, two and three strings
Pairs == {JArr(<<JStr(S_net)>>), JArr(<<JStr(S_net), JStr(S_host)>>),
          JArr(<<JStr(S_net), JStr(S_host), JStr(S_d)>>), JArr(<<>>)}

\* documents that are JSON and are not of the shape of a Rock-on: a field
\* without omitempty left out, a list of other than two strings where a
\* pair is expected, no title or two of them, null
IrregularDocs ==
    {Text(DropKey(WithPairs(JArr(<<JStr(S_net), JStr(S_host)>>), JArr(<<JStr(S_d), JStr(S_v)>>)), key),
          IndentWidth, TRUE) : key \in RequiredNames}
    \cup {Text(WithPairs(o, a), IndentWidth, TRUE) : o \in Pairs, a \in Pairs}
    \cup {Text(JObj(<<>>), IndentWidth, TRUE),
          Text(JNull, IndentWidth, TRUE),
          Text(JObj(<<Member(S_Foo, DetailJ(S_d, JNum(<<"1">>), [detail |-> <<>>, container |-> <<>>], TRUE)),
                      Member(S_Bar, DetailJ(S_d, JNum(<<"1">>), [detail |-> <<>>, container |-> <<>>], TRUE))>>),
               IndentWidth, TRUE)}

S_7 == <<"7">>
S_x == <<"x">>

\* a complete document that carries every numeric field and an environment
\* default
NumericJ(launch, host, size, index, default) ==
    JObj(<<Member(S_Foo, JObj(<<
        Member(N_description, JStr(S_d)),
        Member(N_version, JStr(S_v)),
        Member(N_website, JStr(S_w)),
        Member(N_containers, JObj(<<Member(S_c1, JObj(<<
            Member(N_image, JStr(S_img)),
            Member(N_launch_order, launch),
            Member(N_ports, JObj(<<Member(S_80,
                JObj(<<Member(N_description, JStr(S_d)), Member(N_label, JStr(S_w)),
                       Member(N_host_default, host)>>))>>)),
            Member(N_volumes, JObj(<<Member(S_data,
                JObj(<<Member(N_description, JStr(S_d)), Member(N_label, JStr(S_w)),
                       Member(N_min_size, size)>>))>>)),
            Member(N_environment, JObj(<<Member(S_PUID,
                JObj(<<Member(N_description, JStr(S_d)), Member(N_label, JStr(S_w)),
                       Member(N_index, index), Member(N_default, default)>>))>>))>>))>>))>>))>>)

\* values written where a number is expected: unsigned integers native and
\* quoted, a negative number, a fraction, an exponent, a boolean, a
\* non-numeric string, the empty string, null, a list
NumericValues ==
    {JNum(S_7), JStr(S_7), JNum(<<"-", "1">>), JNum(<<"1", ".", "5">>), JNum(<<"1", "e", "2">>),
     JBool(TRUE), JStr(S_x), JStr(<<>>), JNull, JArr(<<>>)}

\* values written as an environment default: strings, integers, negative
\* zero, a fraction, an exponent, null, a boolean
DefaultValues ==
    {JStr(S_x), JStr(S_7), JNum(S_7), JNum(<<"-", "3">>), JNum(<<"0">>), JNum(<<"-", "0">>),
     JNum(<<"1", ".", "5">>), JNum(<<"1", "e", "2">>), JNull, JBool(TRUE)}

\* documents that vary one numeric field, or the environment default
CoercionDocs ==
    {Text(NumericJ(v, JNum(S_7), JNum(S_7), JNum(S_7), JStr(S_x)), IndentWidth, TRUE) : v \in NumericValues}
    \cup {Text(NumericJ(JNum(S_7), v, JNum(S_7), JNum(S_7), JStr(S_x)), IndentWidth, TRUE) : v \in NumericValues}
    \cup {Text(NumericJ(JNum(S_7), JNum(S_7), v, JNum(S_7), JStr(S_x)), IndentWidth, TRUE) : v \in NumericValues}
    \cup {Text(NumericJ(JNum(S_7), JNum(S_7), JNum(S_7), v, JStr(S_x)), IndentWidth, TRUE) : v \in NumericValues}
    \cup {Text(NumericJ(JNum(S_7), JNum(S_7), JNum(S_7), JNum(S_7), v), IndentWidth, TRUE) : v \in DefaultValues}

(***************************************************************************)
(* The round trip Parse / Canonicalize / Parse / Canonicalize on one       *)
(* document: Parse is json.Unmarshal into a RockOn, Canonicalize is        *)
(* RockOn.ToJSON.                                                          *)
(***************************************************************************)
canonVars == <<doc, rockon, canon, cpc>>
reconcileVars == <<rootMap, advisories, calls>>

MaxPasses == 2

CanonInit == doc \in DocPool \cup IrregularDocs \cup CoercionDocs /\ rockon = NilMap /\ canon = <<>> /\ cpc = "read"

\* var rockon model.RockOn; json.Unmarshal(fileData, &rockon), on the file
\* first and then on the text ToJSON returned
Parse ==
    /\ cpc \in {"read", "canonical"}
    /\ Len(canon) < MaxPasses
    /\ LET r == Unmarshal(RockOn, IF cpc = "read" THEN doc ELSE canon[Len(canon)], NilMap) IN
       /\ rockon' = r.v
       /\ cpc' = IF ~r.err THEN "parsed" ELSE IF cpc = "read" THEN "rejected" ELSE "unparsable"
    /\ UNCHANGED <<doc, canon>>

\* rockon.ToJSON()
Canonicalize ==
    /\ cpc = "parsed"
    /\ canon' = Append(canon, ToJSON(rockon))
    /\ cpc' = "canonical"
    /\ UNCHANGED <<doc, rockon>>

(***************************************************************************)
(* Operators over documents that the properties of canonicalization use.   *)
(***************************************************************************)
RECURSIVE QuoteNumbers(_, _)
\* the JSON text j of type t with every native number of a UintValue field
\* written as a quoted string
QuoteNumbers(t, j) ==
    CASE t.k = "UintValue" /\ j.t = "number" -> JStr(j.raw)
      [] t.k \in {"slice", "array"} /\ j.t = "array" ->
             JArr([i \in 1..Len(j.elems) |-> QuoteNumbers(t.elem, j.elems[i])])
      [] t.k = "map" /\ j.t = "object" ->
             JObj([i \in 1..Len(j.members) |->
                      Member(j.members[i].k, QuoteNumbers(t.elem, j.members[i].v))])
      [] t.k = "ptr" /\ j.t = "object" -> QuoteNumbers(t.elem, j)
      [] t.k = "struct" /\ j.t = "object" ->
             JObj([i \in 1..Len(j.members) |->
                      LET f == FieldIndex(t, Unquote(j.members[i].k)) IN
                      IF f = 0 THEN j.members[i]
                      ELSE Member(j.members[i].k, QuoteNumbers(t.fields[f].type, j.members[i].v))])
      [] OTHER -> j

RECURSIVE IsZeroJSON(_, _)
\* j writes the zero / empty value of type t
IsZeroJSON(t, j) ==
    CASE t.k \in {"string", "StrValue"} -> j = JStr(<<>>)
      [] t.k = "bool" -> j = JBool(FALSE)
      [] t.k = "UintValue" -> j \in {JNum(<<"0">>), JStr(<<"0">>)}
      [] t.k = "map" -> j = JObj(<<>>)
      [] t.k = "slice" -> j = JArr(<<>>)
      [] t.k = "ptr" ->
             /\ j.t = "object"
             /\ \A i \in 1..Len(j.members) :
                    LET f == FieldIndex(t.elem, Unquote(j.members[i].k)) IN
                    f # 0 /\ IsZeroJSON(t.elem.fields[f].type, j.members[i].v)
      [] OTHER -> FALSE

RECURSIVE StripZero(_, _)
RECURSIVE StripZeroMembers(_, _)
\* the members of a struct's JSON object without the optional members that
\* write a zero value
StripZeroMembers(t, members) ==
    LET field(mb) == FieldIndex(t, Unquote(mb.k))
        kept == SelectSeq(members, LAMBDA mb :
                    field(mb) = 0 \/ ~(t.fields[field(mb)].omitempty
                                        /\ IsZeroJSON(t.fields[field(mb)].type, mb.v)))
    IN [i \in 1..Len(kept) |->
           IF field(kept[i]) = 0 THEN kept[i]
           ELSE Member(kept[i].k, StripZero(t.fields[field(kept[i])].type, kept[i].v))]

\* the JSON text j of type t with every optional field that is supplied
\* with its zero value left out, at every depth
StripZero(t, j) ==
    CASE t.k \in {"slice", "array"} /\ j.t = "array" ->
             JArr([i \in 1..Len(j.elems) |-> StripZero(t.elem, j.elems[i])])
      [] t.k = "map" /\ j.t = "object" ->
             JObj([i \in 1..Len(j.members) |->
                      Member(j.members[i].k, StripZero(t.elem, j.members[i].v))])
      [] t.k = "ptr" /\ j.t = "object" -> StripZero(t.elem, j)
      [] t.k = "struct" /\ j.t = "object" -> JObj(StripZeroMembers(t, j.members))
      [] OTHER -> j

\* the number of characters c in the string s
Count(s, c) == Cardinality({i \in 1..Len(s) : s[i] = c})

RECURSIVE SumSeq(_)
SumSeq(s) == IF s = <<>> THEN 0 ELSE s[1] + SumSeq(Tail(s))

RECURSIVE CountInValue(_, _, _)
\* the number of characters c in the strings and map keys of a Go value
CountInValue(t, v, c) ==
    CASE t.k \in {"string", "StrValue"} -> Count(v, c)
      [] t.k = "array" -> SumSeq([i \in 1..t.n |-> CountInValue(t.elem, v[i], c)])
      [] t.k = "slice" -> SumSeq([i \in 1..Len(v.elems) |-> CountInValue(t.elem, v.elems[i], c)])
      [] t.k = "ptr" -> IF v.nil THEN 0 ELSE CountInValue(t.elem, v.v, c)
      [] t.k = "map" ->
             LET keys == SortedKeys(DOMAIN v.m) IN
             SumSeq([i \in 1..Len(keys) |-> Count(keys[i], c) + CountInValue(t.elem, v.m[keys[i]], c)])
      [] t.k = "struct" ->
             SumSeq([i \in 1..Len(t.fields) |-> CountInValue(t.fields[i].type, v[t.fields[i].go], c)])
      [] OTHER -> 0

RECURSIVE StringTokens(_)
\* every string token of a JSON text, keys included, concatenated with a
\* quote between them
StringTokens(j) ==
    CASE j.t = "string" -> j.raw \o <<QT>>
      [] j.t = "array" ->
             IF j.elems = <<>> THEN <<>>
             ELSE StringTokens(j.elems[1]) \o StringTokens(JArr(Tail(j.elems)))
      [] j.t = "object" ->
             IF j.members = <<>> THEN <<>>
             ELSE j.members[1].k \o <<QT>> \o StringTokens(j.members[1].v)
                  \o StringTokens(JObj(Tail(j.members)))
      [] OTHER -> <<>>

RECURSIVE AllKeys(_)
\* the keys of every object of a JSON text
AllKeys(j) ==
    CASE j.t = "array" -> UNION {AllKeys(j.elems[i]) : i \in 1..Len(j.elems)}
      [] j.t = "object" ->
             {j.members[i].k : i \in 1..Len(j.members)}
             \cup UNION {AllKeys(j.members[i].v) : i \in 1..Len(j.members)}
      [] OTHER -> {}

\* the first canonical text has been produced and not yet parsed again
FirstPassDone == cpc = "canonical" /\ Len(canon) = 1

\* the canonical text of a variant of the input document
CanonicalOf(tree) ==
    LET r == Unmarshal(RockOn, Text(tree, doc.indent, doc.newline), NilMap) IN
    IF r.err THEN [err |-> TRUE] ELSE [err |-> FALSE, out |-> ToJSON(r.v)]

\* C1: canonicalization is idempotent: the canonical text of an accepted
\* document parses again, and canonicalizing it again gives the same text.
C1_Idempotence ==
    /\ cpc # "unparsable"
    /\ Len(canon) = 2 => canon[2] = canon[1]

\* C7: a document whose numeric fields are native numbers and the same
\* document with them written as quoted strings have the same canonical text.
C7_CoercionEquivalence ==
    FirstPassDone =>
        LET q == CanonicalOf(QuoteNumbers(RockOn, doc.tree)) IN
        ~q.err /\ q.out = canon[1]

C7_Witness ==
    /\ FirstPassDone
    /\ QuoteNumbers(RockOn, doc.tree) # doc.tree
    /\ rockon.m[CHOOSE x \in DOMAIN rockon.m : TRUE].Containers.m[S_c1].LaunchOrder = 12

\* the input document has only its required members
OnlyRequired(d) == \E title \in Titles, desc \in DescriptionTokens, launch \in LaunchOrders :
    d.tree = DocumentJ(title, desc, launch, [detail |-> <<>>, container |-> <<>>], TRUE)

\* C8: an optional field supplied with its zero / empty value canonicalizes as
\* the same document without the field, at every depth (so an explicit empty
\* UI descriptor is the same as none); a document of required fields only has
\* none of the optional keys in its canonical text.
C8_OptionalSuppression ==
    FirstPassDone =>
        /\ LET z == CanonicalOf(StripZero(RockOn, doc.tree)) IN
           ~z.err /\ z.out = canon[1]
        /\ OnlyRequired(doc) =>
               AllKeys(canon[1].tree) \cap {N_icon, N_more_info, N_ui, N_volumes, N_opts} = {}

C8_Witness ==
    /\ FirstPassDone
    /\ doc \in DocPool
    /\ \E i \in 1..Len(doc.tree.members[1].v.members) :
           doc.tree.members[1].v.members[i] = Member(N_ui, EmptyUI)
    /\ N_ui \notin AllKeys(canon[1].tree)

HTMLChars == {"&", "<", ">"}
HTMLEscapes == {<<BS, "u", "0", "0", "2", "6">>, <<BS, "u", "0", "0", "3", "c">>,
                <<BS, "u", "0", "0", "3", "e">>}

\* C9: the canonical text holds every &, < and > of the document's strings
\* literally, and nowhere one of the escape sequences \u0026, \u003c, \u003e.
C9_Escaping ==
    FirstPassDone =>
        /\ \A e \in HTMLEscapes : ~Contains(StringTokens(canon[1].tree), e)
        /\ \A c \in HTMLChars :
               Count(StringTokens(canon[1].tree), c) >= CountInValue(RockOn, rockon, c)

C9_Witness ==
    /\ FirstPassDone
    /\ \A c \in HTMLChars : CountInValue(RockOn, rockon, c) > 0

RECURSIVE MissingRequired(_, _)
\* the JSON text j of type t leaves out a field that the schema writes
\* without omitempty, at some depth
MissingRequired(t, j) ==
    CASE t.k \in {"slice", "array"} /\ j.t = "array" ->
             \E i \in 1..Len(j.elems) : MissingRequired(t.elem, j.elems[i])
      [] t.k = "map" /\ j.t = "object" ->
             \E i \in 1..Len(j.members) : MissingRequired(t.elem, j.members[i].v)
      [] t.k = "ptr" /\ j.t = "object" -> MissingRequired(t.elem, j)
      [] t.k = "struct" /\ j.t = "object" ->
             \/ \E f \in 1..Len(t.fields) :
                    /\ ~t.fields[f].omitempty
                    /\ \A i \in 1..Len(j.members) : FieldIndex(t, Unquote(j.members[i].k)) # f
             \/ \E i \in 1..Len(j.members) :
                    LET f == FieldIndex(t, Unquote(j.members[i].k)) IN
                    f # 0 /\ MissingRequired(t.fields[f].type, j.members[i].v)
      [] OTHER -> FALSE

\* C12: a well-formed document that leaves out a field without omitempty
\* (description, version, website, containers, image, launch_order, ports,
\* label, host_default) is rejected by Parse: it is never decoded into a
\* RockOn and canonicalized.
C12_MissingRequiredRejected ==
    (Valid(doc.tree) /\ MissingRequired(RockOn, doc.tree)) => cpc \in {"read", "rejected"}

RECURSIVE WrongArity(_, _)
\* the JSON text j of type t has, where a [2]string is expected, a list of
\* other than two elements
WrongArity(t, j) ==
    CASE t.k = "array" /\ j.t = "array" -> Len(j.elems) # t.n
      [] t.k = "slice" /\ j.t = "array" ->
             \E i \in 1..Len(j.elems) : WrongArity(t.elem, j.elems[i])
      [] t.k = "map" /\ j.t = "object" ->
             \E i \in 1..Len(j.members) : WrongArity(t.elem, j.members[i].v)
      [] t.k = "ptr" /\ j.t = "object" -> WrongArity(t.elem, j)
      [] t.k = "struct" /\ j.t = "object" ->
             \E i \in 1..Len(j.members) :
                 LET f == FieldIndex(t, Unquote(j.members[i].k)) IN
                 f # 0 /\ WrongArity(t.fields[f].type, j.members[i].v)
      [] OTHER -> FALSE

\* C13: a well-formed document in which an element of opts or of
\* cmd_arguments has fewer or more than two elements is rejected by Parse:
\* it is never decoded and canonicalized.
C13_WrongArityRejected ==
    (Valid(doc.tree) /\ WrongArity(RockOn, doc.tree)) => cpc \in {"read", "rejected"}

RECURSIVE QuoteDefaults(_, _)
\* the JSON text j of type t with every native number of a StrValue field
\* written as a quoted string
QuoteDefaults(t, j) ==
    CASE t.k = "StrValue" /\ j.t = "number" -> JStr(j.raw)
      [] t.k \in {"slice", "array"} /\ j.t = "array" ->
             JArr([i \in 1..Len(j.elems) |-> QuoteDefaults(t.elem, j.elems[i])])
      [] t.k = "map" /\ j.t = "object" ->
             JObj([i \in 1..Len(j.members) |->
                      Member(j.members[i].k, QuoteDefaults(t.elem, j.members[i].v))])
      [] t.k = "ptr" /\ j.t = "object" -> QuoteDefaults(t.elem, j)
      [] t.k = "struct" /\ j.t = "object" ->
             JObj([i \in 1..Len(j.members) |->
                      LET f == FieldIndex(t, Unquote(j.members[i].k)) IN
                      IF f = 0 THEN j.members[i]
                      ELSE Member(j.members[i].k, QuoteDefaults(t.fields[f].type, j.members[i].v))])
      [] OTHER -> j

RECURSIVE ValuesOf(_, _, _)
\* the JSON values that the text j of type t writes for the fields of kind k
ValuesOf(k, t, j) ==
    CASE t.k = k -> {j}
      [] t.k # k /\ t.k \in {"slice", "array"} /\ j.t = "array" ->
             UNION {ValuesOf(k, t.elem, j.elems[i]) : i \in 1..Len(j.elems)}
      [] t.k # k /\ t.k = "map" /\ j.t = "object" ->
             UNION {ValuesOf(k, t.elem, j.members[i].v) : i \in 1..Len(j.members)}
      [] t.k # k /\ t.k = "ptr" /\ j.t = "object" -> ValuesOf(k, t.elem, j)
      [] t.k # k /\ t.k = "struct" /\ j.t = "object" ->
             UNION {LET f == FieldIndex(t, Unquote(j.members[i].k)) IN
                    IF f = 0 THEN {} ELSE ValuesOf(k, t.fields[f].type, j.members[i].v) :
                    i \in 1..Len(j.members)}
      [] OTHER -> {}

\* an integer literal in its decimal form: an optional minus sign and
\* digits, no fraction, no exponent, no negative zero
DecimalInteger(raw) ==
    /\ ValidIntPart(IF raw # <<>> /\ raw[1] = "-" THEN Tail(raw) ELSE raw)
    /\ raw # <<"-", "0">>

\* the input document writes some environment default as a native number
NumberDefaults == {j \in ValuesOf("StrValue", RockOn, doc.tree) : j.t = "number"}

\* the input document as it would read with its number defaults quoted
QuotedDefaults == CanonicalOf(QuoteDefaults(RockOn, doc.tree))

\* C21 as the specification states it: an environment default supplied as
\* any JSON number is accepted wherever the same document with the default
\* quoted is, and the two have the same canonical text, which carries the
\* default as a string.
C21_AnyNumberDefault ==
    /\ (cpc = "rejected" /\ Valid(doc.tree)) => QuotedDefaults.err
    /\ FirstPassDone =>
           /\ ~QuotedDefaults.err /\ QuotedDefaults.out = canon[1]
           /\ \A j \in ValuesOf("StrValue", RockOn, canon[1].tree) : j.t = "string"

\* C21: an environment default supplied as an integer literal in decimal
\* form is accepted wherever the same document with the default quoted is,
\* and the two have the same canonical text; the canonical text always
\* carries the default as a string.
C21_IntegerDefault ==
    /\ (cpc = "rejected" /\ Valid(doc.tree) /\ \A j \in NumberDefaults : DecimalInteger(j.raw))
           => QuotedDefaults.err
    /\ FirstPassDone =>
           /\ (\A j \in NumberDefaults : DecimalInteger(j.raw))
                  => (~QuotedDefaults.err /\ QuotedDefaults.out = canon[1])
           /\ \A j \in ValuesOf("StrValue", RockOn, canon[1].tree) : j.t = "string"

C21_Witness ==
    /\ FirstPassDone
    /\ NumberDefaults = {JNum(<<"-", "3">>)}
    /\ ValuesOf("StrValue", RockOn, canon[1].tree) = {JStr(<<"-", "3">>)}

\* a value that is neither a native unsigned integer nor a quoted string of
\* decimal digits
NotUnsigned(j) ==
    ~ \/ j.t = "number" /\ AllDigits(j.raw)
      \/ j.t = "string" /\ AllDigits(Unquote(j.raw))

\* C22: a well-formed document in which launch_order, host_default, min_size
\* or index has a value that is neither a native unsigned integer nor a quoted
\* string of decimal digits is rejected by Parse: it is never decoded into a
\* RockOn and canonicalized.
C22_NumericRejection ==
    (Valid(doc.tree) /\ \E j \in ValuesOf("UintValue", RockOn, doc.tree) : NotUnsigned(j))
        => cpc \in {"read", "rejected"}

C22_Witness ==
    /\ cpc = "rejected"
    /\ doc \in CoercionDocs
    /\ ValuesOf("StrValue", RockOn, doc.tree) = {JStr(S_x)}
    /\ JNull \in ValuesOf("UintValue", RockOn, doc.tree)

(***************************************************************************)
(* The index reconciler: func checkRootMap(rootMap, filename, rockon).     *)
(***************************************************************************)
S_foo == <<"f", "o", "o">>
S_bar == <<"b", "a", "r">>
S_Baz == <<"B", "a", "z">>
S_a_json == <<"a", ".", "j", "s", "o", "n">>
S_b_json == <<"b", ".", "j", "s", "o", "n">>
S_n_txt == <<"n", ".", "t", "x", "t">>
S_root_json == <<"r", "o", "o", "t", ".", "j", "s", "o", "n">>
S_json == <<".", "j", "s", "o", "n">>

\* slog.Warn records
NameMismatch(keyName, lowerCaseName, file) ==
    [msg |-> "Name mismatch:", index |-> keyName, expected |-> lowerCaseName, file |-> file]
RemovingEntry == [msg |-> "(if --write) Removing and adding expected entry."]
NoMatch(filename) == [msg |-> "No match in index for", filename |-> filename]

\* the keys the search loop can stop at: the map is ranged over in an
\* unspecified order and the loop breaks at the first value equal to filename
FoundKeys(rm, filename) == {key \in DOMAIN rm.m : rm.m[key] = filename}

\* slices.Collect(maps.Keys(rockon))[0]: any key of the document
RockonTitles(r) == DOMAIN r.m

\* a faulty checkRootMap that adds an entry only when it finds none
checkRootMap_InsertOnly(rm, filename, r, keyName, rockonTitle) ==
    LET filenameFound == FoundKeys(rm, filename) # {}
        lowerCaseName == ToLower(rockonTitle)
        warns == IF filenameFound /\ lowerCaseName # keyName
                 THEN <<NameMismatch(keyName, lowerCaseName, filename), RemovingEntry>>
                 ELSE IF ~filenameFound THEN <<NoMatch(filename)>>
                 ELSE <<>>
    IN [panic |-> RockonTitles(r) = {} \/ rm.nil,
        rootMap |-> IF ~filenameFound THEN MakeMap(MapPut(rm.m, lowerCaseName, filename))
                    ELSE IF lowerCaseName # keyName THEN MakeMap(MapDelete(rm.m, keyName))
                    ELSE rm,
        warns |-> warns]

\* a faulty checkRootMap that adds a missing entry without a warning
checkRootMap_Silent(rm, filename, r, keyName, rockonTitle) ==
    LET filenameFound == FoundKeys(rm, filename) # {}
        lowerCaseName == ToLower(rockonTitle)
        mismatch == filenameFound /\ lowerCaseName # keyName
    IN [panic |-> RockonTitles(r) = {} \/ rm.nil,
        rootMap |-> MakeMap(MapPut(IF mismatch THEN MapDelete(rm.m, keyName) ELSE rm.m,
                                   lowerCaseName, filename)),
        warns |-> IF mismatch THEN <<NameMismatch(keyName, lowerCaseName, filename), RemovingEntry>>
                  ELSE <<>>]

\* a faulty checkRootMap that removes every entry of the file on a mismatch
checkRootMap_Purge(rm, filename, r, keyName, rockonTitle) ==
    LET filenameFound == FoundKeys(rm, filename) # {}
        lowerCaseName == ToLower(rockonTitle)
        mismatch == filenameFound /\ lowerCaseName # keyName
        others == [k \in DOMAIN rm.m \ FoundKeys(rm, filename) |-> rm.m[k]]
    IN [panic |-> RockonTitles(r) = {} \/ rm.nil,
        rootMap |-> MakeMap(MapPut(IF mismatch THEN others ELSE rm.m, lowerCaseName, filename)),
        warns |-> IF mismatch THEN <<NameMismatch(keyName, lowerCaseName, filename), RemovingEntry>>
                  ELSE IF ~filenameFound THEN <<NoMatch(filename)>>
                  ELSE <<>>]

\* a faulty checkRootMap that warns of a mismatch and leaves the entry
checkRootMap_KeepStale(rm, filename, r, keyName, rockonTitle) ==
    LET filenameFound == FoundKeys(rm, filename) # {}
        lowerCaseName == ToLower(rockonTitle)
        warns == IF filenameFound /\ lowerCaseName # keyName
                 THEN <<NameMismatch(keyName, lowerCaseName, filename), RemovingEntry>>
                 ELSE IF ~filenameFound THEN <<NoMatch(filename)>>
                 ELSE <<>>
    IN [panic |-> RockonTitles(r) = {} \/ rm.nil,
        rootMap |-> MakeMap(MapPut(rm.m, lowerCaseName, filename)),
        warns |-> warns]

\* checkRootMap, for the key keyName its search stops at (none when
\* filenameFound is false) and the title rockonTitle it picks.  The result is
\* the map and the warnings logged; it panics when the document has no key,
\* or on the assignment to a nil map.
checkRootMap(rm, filename, r, keyName, rockonTitle) ==
    LET filenameFound == FoundKeys(rm, filename) # {}
        lowerCaseName == ToLower(rockonTitle)
        mismatch == filenameFound /\ lowerCaseName # keyName
        warns == IF mismatch THEN <<NameMismatch(keyName, lowerCaseName, filename), RemovingEntry>>
                 ELSE IF ~filenameFound THEN <<NoMatch(filename)>>
                 ELSE <<>>
        kept == IF mismatch THEN MapDelete(rm.m, keyName) ELSE rm.m
    IN IF RockonTitles(r) = {} THEN [panic |-> TRUE, rootMap |-> rm, warns |-> <<>>]
       ELSE IF rm.nil THEN [panic |-> TRUE, rootMap |-> rm, warns |-> warns]
       ELSE [panic |-> FALSE,
             rootMap |-> MakeMap(MapPut(kept, lowerCaseName, filename)),
             warns |-> warns]

\* a single-entry document with the given title
TitleOnly(title) == MakeMap(MapPut(EmptyMap, title, Zero(RockonDetails)))

(***************************************************************************)
(* Reconciling one (filename, title) against an index, repeatedly.         *)
(***************************************************************************)
IndexKeys == {S_foo, S_Bar, S_Baz}
Filenames == {S_a_json, S_b_json}
ReconcileTitles == {S_Foo, S_Bar, S_AmpTitle}

\* every index over the keys and filenames of the pool
IndexPool == UNION {[K -> Filenames] : K \in SUBSET IndexKeys}

MaxCalls == 2

ReconcileIdle == rootMap = MakeMap(EmptyMap) /\ advisories = <<>> /\ calls = <<>>

ReconcileInit == rootMap \in {MakeMap(m) : m \in IndexPool} /\ advisories = <<>> /\ calls = <<>>

\* one call checkRootMap(rootMap, filename, rockon); a later call repeats the
\* arguments of the first
Reconcile ==
    /\ Len(calls) < MaxCalls
    /\ \E filename \in Filenames, title \in ReconcileTitles :
        /\ calls # <<>> => filename = calls[1].filename /\ title = calls[1].title
        /\ \E keyName \in (IF FoundKeys(rootMap, filename) = {} THEN {<<>>}
                           ELSE FoundKeys(rootMap, filename)) :
            LET res == checkRootMap(rootMap, filename, TitleOnly(title), keyName, title) IN
            /\ ~res.panic
            /\ rootMap' = res.rootMap
            /\ advisories' = advisories \o res.warns
            /\ calls' = Append(calls, [filename |-> filename, title |-> title,
                                       before |-> rootMap, keyName |-> keyName,
                                       found |-> FoundKeys(rootMap, filename) # {},
                                       after |-> res.rootMap, warns |-> res.warns])

(***************************************************************************)
(* main.  Paths are [dir, base]: the cleaned form of a path, so equality   *)
(* of paths is equality after filepath.Clean.                              *)
(***************************************************************************)
mainVars == <<flags, args, fs, filePaths, fileIdx, pc, origFileContent, rootFile, indexValidated,
              indexOrigContent, diffToValid, fileInfo, output, writes, exitStatus, processed>>

vars == <<doc, rockon, canon, cpc, rootMap, advisories, calls, flags, args, fs, filePaths, fileIdx, pc,
          origFileContent, rootFile, indexValidated, indexOrigContent, diffToValid, fileInfo,
          output, writes, exitStatus, processed>>

Path(dir, base) == [dir |-> dir, base |-> base]
\* the empty path "" (no --root flag)
NoPath == Path("", <<>>)

\* filepath.Join(filepath.Dir(fileName), "root.json")
SameDirIndex(fileName) == Path(fileName.dir, S_root_json)

\* index of the last "." of a name, 0 when it has none
LastDot(name) ==
    IF \E k \in 1..Len(name) : name[k] = "."
    THEN CHOOSE k \in 1..Len(name) : name[k] = "." /\ \A l \in (k + 1)..Len(name) : name[l] # "."
    ELSE 0

\* a faulty filepath.Ext that finds .json in every name
Ext_AlwaysJSON(fileName) == S_json

\* filepath.Ext
Ext(fileName) ==
    IF LastDot(fileName.base) = 0 THEN <<>>
    ELSE SubSeq(fileName.base, LastDot(fileName.base), Len(fileName.base))

\* json.MarshalIndent(rootMap, "", "  "): HTML characters escaped, two
\* spaces, no trailing newline
IndexIndentWidth == 2
\* a faulty index encoder that writes the index as ToJSON writes a document
MarshalIndex_LikeDocuments(rm) == Text(Marshal(TMap(TString), rm, FALSE), IndentWidth, TRUE)

MarshalIndex(rm) == Text(Marshal(TMap(TString), rm, TRUE), IndexIndentWidth, FALSE)

\* exit statuses of main
ExitOK == 0
ExitFailed == 1
ExitNoMatch == 2
ExitInvalidJSON == 3
ExitNoIndex == 4
ExitInvalidIndex == 5
ExitOverwriteRockon == 6
ExitOverwriteIndex == 7
\* the status of a Go program that panics
ExitPanic == 2
NotExited == 0 - 1

\* a faulty fatal exit that logs the error and lets the loop go on
Fatal_LogOnly(code) == pc' = "read" /\ exitStatus' = code

\* a faulty fatal exit that gives every error the status 1
Fatal_One(code) == pc' = "fatal" /\ exitStatus' = 1

\* logger.Error(...); os.Exit(code): a fatal error ends the run.  A panic
\* ends it the same way, with the status the Go runtime gives
Fatal(code) == pc' = "fatal" /\ exitStatus' = code

\* a faulty final status that reports success whatever was found
FinalStatus_AlwaysOK(differs, diffFlag) == 0

\* a faulty final status that --diff does not change
FinalStatus_IgnoresDiff(differs, diffFlag) == IF differs THEN 1 ELSE 0

\* if diffToValid { if diffFlag { os.Exit(0) } else { os.Exit(1) } }, else
\* main returns
FinalStatus(differs, diffFlag) ==
    IF differs THEN (IF diffFlag THEN ExitOK ELSE ExitFailed) ELSE ExitOK

(***************************************************************************)
(* The files of a run.                                                     *)
(***************************************************************************)
File(content, readable, mode) ==
    [exists |-> TRUE, readable |-> readable, content |-> content, mode |-> mode]
Missing == [exists |-> FALSE, readable |-> FALSE, content |-> Text(JGarbage, 0, FALSE), mode |-> "none"]

DocA == Path("repo", S_a_json)
DocB == Path("repo", S_b_json)
Notes == Path("repo", S_n_txt)
RepoIndex == Path("repo", S_root_json)
OtherIndex == Path("other", S_root_json)
NoSuchFile == Path("repo", <<"z", ".", "j", "s", "o", "n">>)

AllPaths == {DocA, DocB, Notes, RepoIndex, OtherIndex, NoSuchFile}
InputPaths == {DocA, DocB, Notes, RepoIndex, NoSuchFile}

NoOptionals == [detail |-> <<>>, container |-> <<>>]
\* a document in canonical form, and the same document indented otherwise
CanonicalDoc(title) == Text(DocumentJ(title, S_html, JNum(<<"1">>), NoOptionals, TRUE), IndentWidth, TRUE)
ReindentedDoc(title) == Text(DocumentJ(title, S_html, JStr(<<"1">>), NoOptionals, FALSE), 2, TRUE)
\* well-formed JSON that is no Rock-on: launch_order is a fraction
MisshapenDoc(title) == Text(DocumentJ(title, S_d, JNum(<<"1", ".", "5">>), NoOptionals, TRUE), IndentWidth, TRUE)
\* bytes that are not JSON
Garbage == Text(JGarbage, 0, FALSE)

\* a document without a title, and one with two
NoTitleDoc == Text(JObj(<<>>), IndentWidth, TRUE)
TwoTitleDoc ==
    Text(JObj(<<Member(S_Bar, DetailJ(S_html, JNum(<<"1">>), NoOptionals, TRUE)),
                Member(S_Foo, DetailJ(S_html, JNum(<<"1">>), NoOptionals, TRUE))>>), IndentWidth, TRUE)

S_AmpKey == <<"a", "&", "b">>

IndexText(m) == Text(Marshal(TMap(TString), MakeMap(m), FALSE), IndexIndentWidth, FALSE)

FilesOf(path) ==
    CASE path = DocA -> {File(CanonicalDoc(S_Foo), TRUE, "0644"), File(ReindentedDoc(S_Foo), TRUE, "0644"),
                         File(MisshapenDoc(S_Foo), TRUE, "0644"), File(NoTitleDoc, TRUE, "0644"),
                         File(TwoTitleDoc, TRUE, "0644")}
      [] path = DocB -> {File(CanonicalDoc(S_Bar), TRUE, "0600"), File(Garbage, TRUE, "0600"),
                         File(Garbage, FALSE, "0600"), File(CanonicalDoc(S_foo), TRUE, "0600")}
      [] path = Notes -> {File(MisshapenDoc(S_Foo), TRUE, "0644"), File(Garbage, TRUE, "0644")}
      [] path \in {RepoIndex, OtherIndex} ->
             {Missing, File(Garbage, TRUE, "0640"),
              File(IndexText(MapPut(EmptyMap, S_foo, S_a_json)), TRUE, "0640"),
              File(IndexText(MapPut(MapPut(EmptyMap, S_Bar, S_a_json), S_bar, S_b_json)), TRUE, "0640"),
              File(Text(JObj(<<Member(S_foo, JNum(<<"1">>))>>), IndexIndentWidth, FALSE), TRUE, "0640"),
              File(IndexText(MapPut(MapPut(EmptyMap, S_foo, S_a_json), S_AmpKey, S_n_txt)), TRUE, "0640")}
      [] OTHER -> {Missing}

\* the file behind a path that a run does not touch
DefaultFile(path) == CHOOSE x \in FilesOf(path) : TRUE

MaxFiles == 2

RECURSIVE SeqsUpTo(_, _)
\* the sequences over S of length at most n
SeqsUpTo(S, n) ==
    IF n = 0 THEN {<<>>}
    ELSE SeqsUpTo(S, n - 1) \cup {Append(q, x) : q \in {r \in SeqsUpTo(S, n - 1) : Len(r) = n - 1}, x \in S}

MainIdle ==
    /\ flags = [checkFlag |-> FALSE, diffFlag |-> FALSE, writeFlag |-> FALSE, rootFlag |-> NoPath]
    /\ args = <<>> /\ filePaths = <<>> /\ fileIdx = 0 /\ pc = "idle"
    /\ fs = [p \in AllPaths |-> Missing]
    /\ origFileContent = Garbage /\ rootFile = NoPath /\ indexValidated = FALSE
    /\ indexOrigContent = Garbage /\ diffToValid = FALSE /\ fileInfo = "nil"
    /\ output = <<>> /\ writes = <<>> /\ exitStatus = NotExited /\ processed = <<>>

\* the state main starts in: any flags, any patterns, any files behind them
MainInit ==
    /\ flags \in [checkFlag : BOOLEAN, diffFlag : BOOLEAN, writeFlag : BOOLEAN,
                  rootFlag : {NoPath, OtherIndex}]
    /\ args \in SeqsUpTo(InputPaths, MaxFiles)
    /\ LET indexPath == IF flags.rootFlag = NoPath THEN RepoIndex ELSE flags.rootFlag
           touched(p) == p = indexPath \/ \E k \in 1..Len(args) : args[k] = p
           choices(p) == IF touched(p) THEN FilesOf(p) ELSE {DefaultFile(p)}
       IN \E a \in choices(DocA), b \in choices(DocB), n \in choices(Notes),
             r \in choices(RepoIndex), o \in choices(OtherIndex) :
              fs = [p \in AllPaths |->
                       CASE p = DocA -> a [] p = DocB -> b [] p = Notes -> n
                         [] p = RepoIndex -> r [] p = OtherIndex -> o [] OTHER -> Missing]
    /\ filePaths = <<>> /\ fileIdx = 0 /\ pc = "start"
    /\ origFileContent = Garbage
    /\ rootFile = flags.rootFlag
    /\ indexValidated = FALSE /\ indexOrigContent = Garbage /\ diffToValid = FALSE
    /\ fileInfo = "nil" /\ output = <<>> /\ writes = <<>>
    /\ exitStatus = NotExited /\ processed = <<>>
    /\ rockon = NilMap /\ rootMap = MakeMap(EmptyMap) /\ advisories = <<>>

(***************************************************************************)
(* The steps of main.                                                      *)
(***************************************************************************)
pipelineVars == <<doc, canon, cpc>>
inputVars == <<flags, args>>

fileName == filePaths[fileIdx]

Exists(path) == path \in DOMAIN fs /\ fs[path].exists

SkippedIndex(file) == [msg |-> "Skipped RockOn validation for index", file |-> file]
SkippedNonJSON(file) == [msg |-> "Non *.json filename passed as input, skipping", file |-> file]

\* a faulty continue that falls through to the reconciliation
NextFile_Reconcile == fileIdx' = fileIdx /\ pc' = "reconcile"

\* a faulty continue that ends the run
NextFile_Stop == pc' = "fatal" /\ fileIdx' = fileIdx

\* continue / the end of the loop body
NextFile == fileIdx' = fileIdx + 1 /\ pc' = "read"

\* a faulty loop that ends after its first file
LoopDone_AfterFirst == fileIdx > 1 \/ fileIdx > Len(filePaths)

\* for _, fileName := range parseFileArgs() { ... }: the loop is over
LoopDone == fileIdx > Len(filePaths)

\* a faulty test that reads the index again for every file
IndexPending_Always == TRUE

\* if indexValidated == false { ... }
IndexPending == indexValidated = FALSE

\* func parseFileArgs(): a pattern that matches no file ends the run
ParseFileArgs ==
    /\ pc = "start"
    /\ IF \E k \in 1..Len(args) : ~Exists(args[k])
       THEN Fatal(ExitNoMatch) /\ UNCHANGED <<filePaths, fileIdx>>
       ELSE filePaths' = args /\ fileIdx' = 1 /\ pc' = "read" /\ UNCHANGED exitStatus
    /\ UNCHANGED <<pipelineVars, inputVars, rockon, rootMap, advisories, calls, fs, origFileContent,
                   rootFile, indexValidated, indexOrigContent, diffToValid, fileInfo, output,
                   writes, processed>>

\* os.ReadFile(fileName) and json.Valid(fileData)
ReadFile ==
    /\ pc = "read"
    /\ ~LoopDone
    /\ IF ~fs[fileName].readable
       THEN Fatal(ExitFailed) /\ UNCHANGED origFileContent
       ELSE IF ~Valid(fs[fileName].content.tree)
       THEN Fatal(ExitInvalidJSON) /\ UNCHANGED origFileContent
       ELSE /\ origFileContent' = fs[fileName].content
            /\ pc' = IF IndexPending THEN "index" ELSE "validate"
            /\ UNCHANGED exitStatus
    /\ UNCHANGED <<pipelineVars, inputVars, rockon, rootMap, advisories, calls, fs, filePaths, fileIdx,
                   rootFile, indexValidated, indexOrigContent, diffToValid, fileInfo, output,
                   writes, processed>>

\* if indexValidated == false { ... }: the index is read and decoded while
\* the first file is processed
LoadIndex ==
    /\ pc = "index"
    /\ LET root == IF flags.rootFlag = NoPath THEN SameDirIndex(fileName) ELSE rootFile
           dec == Unmarshal(TMap(TString), fs[root].content, rootMap)
       IN /\ rootFile' = root
          /\ IF ~Exists(root) \/ ~fs[root].readable
             THEN Fatal(ExitNoIndex) /\ UNCHANGED <<indexOrigContent, rootMap, indexValidated>>
             ELSE IF ~Valid(fs[root].content.tree)
             THEN Fatal(ExitInvalidIndex) /\ UNCHANGED <<indexOrigContent, rootMap, indexValidated>>
             ELSE /\ indexOrigContent' = fs[root].content
                  /\ IF dec.err
                     THEN Fatal(ExitFailed) /\ UNCHANGED <<rootMap, indexValidated>>
                     ELSE /\ rootMap' = dec.v
                          /\ indexValidated' = TRUE
                          /\ pc' = "validate"
                          /\ UNCHANGED exitStatus
    /\ UNCHANGED <<pipelineVars, inputVars, rockon, advisories, calls, fs, filePaths, fileIdx,
                   origFileContent, diffToValid, fileInfo, output, writes, processed>>

\* the index file itself is skipped; any other file is decoded as a RockOn
ValidateRockon ==
    /\ pc = "validate"
    /\ LET dec == Unmarshal(RockOn, origFileContent, NilMap) IN
       IF fileName = rootFile
       THEN /\ advisories' = Append(advisories, SkippedIndex(rootFile))
            /\ NextFile
            /\ UNCHANGED <<rockon, exitStatus>>
       ELSE IF dec.err
       THEN IF Ext(fileName) = S_json
            THEN Fatal(ExitFailed) /\ UNCHANGED <<rockon, advisories, fileIdx>>
            ELSE /\ advisories' = Append(advisories, SkippedNonJSON(fileName))
                 /\ NextFile
                 /\ UNCHANGED <<rockon, exitStatus>>
       ELSE /\ rockon' = dec.v
            /\ pc' = "reconcile"
            /\ UNCHANGED <<advisories, fileIdx, exitStatus>>
    /\ UNCHANGED <<pipelineVars, inputVars, rootMap, calls, fs, filePaths, origFileContent, rootFile,
                   indexValidated, indexOrigContent, diffToValid, fileInfo, output, writes,
                   processed>>

\* checkRootMap(rootMap, filepath.Base(fileName), rockon)
ReconcileIndex ==
    /\ pc = "reconcile"
    /\ \E keyName \in (IF FoundKeys(rootMap, fileName.base) = {} THEN {<<>>}
                       ELSE FoundKeys(rootMap, fileName.base)),
          title \in (IF RockonTitles(rockon) = {} THEN {<<>>} ELSE RockonTitles(rockon)) :
        LET res == checkRootMap(rootMap, fileName.base, rockon, keyName, title) IN
        IF res.panic
        THEN Fatal(ExitPanic) /\ UNCHANGED <<rootMap, advisories, calls>>
        ELSE /\ rootMap' = res.rootMap
             /\ advisories' = advisories \o res.warns
             /\ calls' = Append(calls, [filename |-> fileName.base, title |-> title,
                                        before |-> rootMap, keyName |-> keyName,
                                        found |-> FoundKeys(rootMap, fileName.base) # {},
                                        after |-> res.rootMap, warns |-> res.warns])
             /\ pc' = "compare"
             /\ UNCHANGED exitStatus
    /\ UNCHANGED <<pipelineVars, inputVars, rockon, fs, filePaths, fileIdx, origFileContent, rootFile,
                   indexValidated, indexOrigContent, diffToValid, fileInfo, output, writes,
                   processed>>

\* rockon.ToJSON(), the comparison with the file, the diff, os.Stat
CompareAndDiff ==
    /\ pc = "compare"
    /\ LET rockonValidatedJSON == ToJSON(rockon) IN
       /\ diffToValid' = (diffToValid \/ origFileContent # rockonValidatedJSON)
       /\ output' = IF flags.diffFlag
                    THEN Append(output, [file |-> fileName, a |-> origFileContent,
                                         b |-> rockonValidatedJSON])
                    ELSE output
       /\ processed' = Append(processed, [file |-> fileName,
                                          divergent |-> origFileContent # rockonValidatedJSON])
    /\ fileInfo' = fs[fileName].mode
    /\ pc' = "write"
    /\ UNCHANGED <<pipelineVars, inputVars, rockon, rootMap, advisories, calls, fs, filePaths, fileIdx,
                   origFileContent, rootFile, indexValidated, indexOrigContent, writes, exitStatus>>

\* if writeFlag { os.WriteFile(fileName, rockonValidatedJSON, fileInfo.Mode()) }
WriteRockon ==
    /\ pc = "write"
    /\ IF flags.writeFlag
       THEN \E ok \in BOOLEAN :
               /\ writes' = Append(writes, [file |-> fileName, content |-> ToJSON(rockon),
                                            mode |-> fileInfo, ok |-> ok,
                                            orig |-> origFileContent])
               /\ IF ok
                  THEN /\ fs' = [fs EXCEPT ![fileName] = File(ToJSON(rockon), TRUE, fileInfo)]
                       /\ NextFile
                       /\ UNCHANGED exitStatus
                  ELSE Fatal(ExitOverwriteRockon) /\ UNCHANGED <<fs, fileIdx>>
       ELSE NextFile /\ UNCHANGED <<writes, fs, exitStatus>>
    /\ UNCHANGED <<pipelineVars, inputVars, rockon, rootMap, advisories, calls, filePaths,
                   origFileContent, rootFile, indexValidated, indexOrigContent, diffToValid,
                   fileInfo, output, processed>>

\* after the loop: json.MarshalIndent(rootMap, "", "  ") and, if writeFlag,
\* os.WriteFile(rootFile, ..., rootStat.Mode()); rootStat is the FileInfo of
\* the last document when the index file does not exist, and calling Mode on
\* a nil FileInfo panics
WriteIndex ==
    /\ pc = "read"
    /\ LoopDone
    /\ IF flags.writeFlag
       THEN LET rootStat == IF Exists(rootFile) THEN fs[rootFile].mode ELSE fileInfo IN
            IF rootStat = "nil"
            THEN Fatal(ExitPanic) /\ UNCHANGED <<writes, fs>>
            ELSE \E ok \in BOOLEAN :
                    /\ writes' = Append(writes, [file |-> rootFile, content |-> MarshalIndex(rootMap),
                                                 mode |-> rootStat, ok |-> ok,
                                                 orig |-> indexOrigContent])
                    /\ IF ok /\ rootFile \in DOMAIN fs
                       THEN /\ fs' = [fs EXCEPT ![rootFile] = File(MarshalIndex(rootMap), TRUE, rootStat)]
                            /\ pc' = "finish"
                            /\ UNCHANGED exitStatus
                       ELSE Fatal(ExitOverwriteIndex) /\ UNCHANGED fs
       ELSE pc' = "finish" /\ UNCHANGED <<writes, fs, exitStatus>>
    /\ UNCHANGED <<pipelineVars, inputVars, rockon, rootMap, advisories, calls, filePaths, fileIdx,
                   origFileContent, rootFile, indexValidated, indexOrigContent, diffToValid,
                   fileInfo, output, processed>>

\* the diff of the index, and the exit status of a run that got to its end
Finish ==
    /\ pc = "finish"
    /\ output' = IF flags.diffFlag
                 THEN Append(output, [file |-> rootFile, a |-> indexOrigContent,
                                      b |-> MarshalIndex(rootMap)])
                 ELSE output
    /\ pc' = "done" /\ exitStatus' = FinalStatus(diffToValid, flags.diffFlag)
    /\ UNCHANGED <<pipelineVars, inputVars, rockon, rootMap, advisories, calls, fs, filePaths, fileIdx,
                   origFileContent, rootFile, indexValidated, indexOrigContent, diffToValid,
                   fileInfo, writes, processed>>

(***************************************************************************)
(* Specifications.                                                         *)
(***************************************************************************)
MainNext ==
    \/ ParseFileArgs
    \/ ReadFile
    \/ LoadIndex
    \/ ValidateRockon
    \/ ReconcileIndex
    \/ CompareAndDiff
    \/ WriteRockon
    \/ WriteIndex
    \/ Finish

\* a run of the program
Init == MainInit /\ doc = Text(JNull, 0, FALSE) /\ canon = <<>> /\ cpc = "idle" /\ calls = <<>>
Next == MainNext
Spec == Init /\ [][Next]_vars

\* the round trip of one document
CanonNext ==
    \/ Parse /\ UNCHANGED <<rootMap, advisories, calls, mainVars>>
    \/ Canonicalize /\ UNCHANGED <<rootMap, advisories, calls, mainVars>>
InitCanon == CanonInit /\ ReconcileIdle /\ MainIdle
SpecCanon == InitCanon /\ [][CanonNext]_vars

\* repeated reconciliation of one document against one index
ReconcileNext == Reconcile /\ UNCHANGED <<doc, rockon, canon, cpc, mainVars>>
InitReconcile ==
    /\ ReconcileInit
    /\ MainIdle
    /\ doc = Text(JNull, 0, FALSE) /\ rockon = NilMap /\ canon = <<>> /\ cpc = "idle"
SpecReconcile == InitReconcile /\ [][ReconcileNext]_vars

(***************************************************************************)
(* Properties of the reconciler, over the calls made.                      *)
(***************************************************************************)
\* the key checkRootMap computes for a call
ExpectedKey(call) == ToLower(call.title)

\* a call that found the filename under a key other than the expected one
Mismatched(call) == call.found /\ call.keyName # ExpectedKey(call)

\* C2: after every call checkRootMap(rootMap, filename, rockon), whether or
\* not the filename was found in the index before, the index maps the
\* lower-cased title of the document to the filename.
C2_ReconcilePostcondition ==
    \A k \in 1..Len(calls) :
        /\ ExpectedKey(calls[k]) \in DOMAIN calls[k].after.m
        /\ calls[k].after.m[ExpectedKey(calls[k])] = calls[k].filename

\* a first call that did not find the filename, then one that found it
C2_Witness ==
    /\ Len(calls) = 2
    /\ ~calls[1].found
    /\ calls[2].found
    /\ rootMap.m[ExpectedKey(calls[2])] = calls[2].filename

\* C3: a call that finds the filename under a key K other than the
\* lower-cased title logs a name mismatch carrying (K, lower-cased title,
\* filename) and leaves an index without the key K; the index
\* {"Bar": "a.json"} with the title Foo in a.json becomes {"foo": "a.json"}.
C3_MismatchDetection ==
    \A k \in 1..Len(calls) :
        /\ Mismatched(calls[k]) =>
              /\ \E n \in 1..Len(calls[k].warns) :
                     calls[k].warns[n] =
                         NameMismatch(calls[k].keyName, ExpectedKey(calls[k]), calls[k].filename)
              /\ calls[k].keyName \notin DOMAIN calls[k].after.m
        /\ (/\ calls[k].before = MakeMap(MapPut(EmptyMap, S_Bar, S_a_json))
            /\ calls[k].title = S_Foo
            /\ calls[k].filename = S_a_json)
           => /\ calls[k].after = MakeMap(MapPut(EmptyMap, S_foo, S_a_json))
              /\ calls[k].warns # <<>>

\* the index {"Bar": "a.json"} reconciled with Foo in a.json
C3_Witness ==
    /\ calls # <<>>
    /\ Mismatched(calls[1])
    /\ calls[1].before = MakeMap(MapPut(EmptyMap, S_Bar, S_a_json))
    /\ calls[1].title = S_Foo
    /\ rootMap = MakeMap(MapPut(EmptyMap, S_foo, S_a_json))
    /\ advisories # <<>>

\* C4: a second call with the filename and title of the first, on the index
\* the first left, leaves the index as it is and logs nothing.
C4_ReconcileIdempotence ==
    Len(calls) >= 2 => calls[2].after = calls[1].after /\ calls[2].warns = <<>>

(***************************************************************************)
(* Properties of a run of main.                                            *)
(***************************************************************************)
\* the run got to its end: no fatal error stopped it
Completed == pc = "done"

\* some processed document differs from its canonical form
SomeDivergent == \E k \in 1..Len(processed) : processed[k].divergent

\* C5, as stated: a run with --check that completes exits with 0 if no
\* processed document is divergent and with a nonzero status if one is,
\* whatever the other flags.
C5_CheckExitStatus ==
    (Completed /\ flags.checkFlag) => (exitStatus = 0 <=> ~SomeDivergent)

\* C5, amended: a run with --check and without --diff that completes exits
\* with 0 if no processed document is divergent and with a nonzero status if
\* one is.
C5_CheckExitStatusWithoutDiff ==
    (Completed /\ flags.checkFlag /\ ~flags.diffFlag) => (exitStatus = 0 <=> ~SomeDivergent)

\* a completed --check run over a divergent document that exits with 1
C5_Witness ==
    /\ Completed
    /\ flags.checkFlag
    /\ ~flags.diffFlag
    /\ SomeDivergent
    /\ exitStatus = 1

\* the last os.WriteFile of the run failed
LastWriteFailed == writes # <<>> /\ ~writes[Len(writes)].ok

\* the run stopped while the file at fileIdx was being processed
AtFile == fileIdx \in 1..Len(filePaths)

\* C6: a run that a fatal condition stopped exits with the status of that
\* condition: 1 for an unreadable input file, 2 for a pattern without a
\* file, 3 for a document that is not JSON, 4 for a missing or unreadable
\* index, 5 for an index that is not JSON, 6 for a failed write of a
\* document and 7 for a failed write of the index.
C6_ExitStatusTaxonomy ==
    pc = "fatal" =>
        /\ (AtFile /\ ~fs[fileName].readable) => exitStatus = 1
        /\ (filePaths = <<>> /\ \E k \in 1..Len(args) : ~Exists(args[k])) => exitStatus = 2
        /\ (AtFile /\ fs[fileName].readable /\ ~Valid(fs[fileName].content.tree)) => exitStatus = 3
        /\ (AtFile /\ ~indexValidated
              /\ fs[fileName].readable /\ Valid(fs[fileName].content.tree)
              /\ (~Exists(rootFile) \/ ~fs[rootFile].readable)) => exitStatus = 4
        /\ (AtFile /\ ~indexValidated
              /\ fs[fileName].readable /\ Valid(fs[fileName].content.tree)
              /\ Exists(rootFile) /\ fs[rootFile].readable
              /\ ~Valid(fs[rootFile].content.tree)) => exitStatus = 5
        /\ (LastWriteFailed /\ writes[Len(writes)].file # rootFile) => exitStatus = 6
        /\ (LastWriteFailed /\ writes[Len(writes)].file = rootFile) => exitStatus = 7

\* a run stopped by the failed write of the index, after a document was
\* written
C6_Witness ==
    /\ pc = "fatal"
    /\ exitStatus = 7
    /\ Len(writes) >= 2
    /\ LastWriteFailed
    /\ writes[Len(writes)].file = rootFile

\* C10: a run that completes exits with 0 when no processed document is
\* divergent; when one is, it exits with 0 if --diff was given and with 1
\* otherwise.
C10_ReadmeExitCodes ==
    Completed =>
        exitStatus = (IF ~SomeDivergent THEN 0 ELSE IF flags.diffFlag THEN 0 ELSE 1)

\* a completed --diff run over a divergent document that exits with 0
C10_Witness ==
    /\ Completed
    /\ SomeDivergent
    /\ flags.diffFlag
    /\ output # <<>>
    /\ exitStatus = 0

(***************************************************************************)
(* Properties of a batch.                                                  *)
(***************************************************************************)
\* C11: when a run completes, the index maps the lower-cased title of every
\* document that was reconciled during the run to the base name of the
\* file of that document.
C11_IndexCoverage ==
    Completed =>
        \A k \in 1..Len(calls) :
            /\ ExpectedKey(calls[k]) \in DOMAIN rootMap.m
            /\ rootMap.m[ExpectedKey(calls[k])] = calls[k].filename

\* the string s ends with suf
EndsWith(s, suf) ==
    Len(s) >= Len(suf) /\ SubSeq(s, Len(s) - Len(suf) + 1, Len(s)) = suf

\* a readable file that is not named *.json and does not hold a Rock-on
NonDocument(path) ==
    /\ ~EndsWith(path.base, S_json)
    /\ fs[path].readable
    /\ Unmarshal(RockOn, fs[path].content, NilMap).err

\* the statuses of a run that its index stopped
IndexStatuses == {ExitNoIndex, ExitInvalidIndex, ExitFailed}

\* a file of the batch that the run has gone past, or stopped at
Passed(k) == k \in 1..Len(filePaths) /\ k <= fileIdx /\ (k = fileIdx => pc = "fatal")

\* C14, as stated: a file that is not named *.json and does not hold a
\* Rock-on, whether or not it is JSON at all, is skipped with an advisory
\* and does not end the run.
C14_NonDocumentsSkipped ==
    \A k \in 1..Len(filePaths) :
        (Passed(k) /\ NonDocument(filePaths[k])) =>
            IF k = fileIdx
            THEN ~indexValidated /\ exitStatus \in IndexStatuses
            ELSE \E n \in 1..Len(advisories) : advisories[n] = SkippedNonJSON(filePaths[k])

\* C14, amended: a file that is not named *.json and holds JSON that is no
\* Rock-on is skipped with an advisory and does not end the run.
C14_WellFormedNonDocumentsSkipped ==
    \A k \in 1..Len(filePaths) :
        (Passed(k) /\ NonDocument(filePaths[k]) /\ Valid(fs[filePaths[k]].content.tree)) =>
            IF k = fileIdx
            THEN ~indexValidated /\ exitStatus \in IndexStatuses
            ELSE \E n \in 1..Len(advisories) : advisories[n] = SkippedNonJSON(filePaths[k])

\* a run that skipped its first file, which is JSON and no Rock-on, and
\* processed the second
C14_Witness ==
    /\ Completed
    /\ Len(filePaths) = 2
    /\ NonDocument(filePaths[1])
    /\ Valid(fs[filePaths[1]].content.tree)
    /\ advisories # <<>> /\ advisories[1] = SkippedNonJSON(filePaths[1])
    /\ Len(processed) = 1

\* C15: once a fatal condition has given the run its exit status nothing
\* more happens: no file after the one the run stopped at is read,
\* reconciled, diffed or written, and the status stays.
C15_FatalTerminates ==
    /\ [][exitStatus = NotExited]_vars
    /\ [](exitStatus # NotExited => pc \in {"fatal", "done"})
    /\ []((pc = "fatal" /\ AtFile) =>
             /\ Len(calls) <= fileIdx
             /\ Len(processed) <= fileIdx
             /\ Len(output) <= fileIdx
             /\ Len(writes) <= fileIdx)

\* a run stopped at a file that is not the last of the batch
C15_Witness ==
    /\ pc = "fatal"
    /\ AtFile
    /\ fileIdx < Len(filePaths)
    /\ exitStatus # NotExited

C17_WritesOnlyDivergent ==
    \A k \in 1..Len(writes) : writes[k].content # writes[k].orig

\* the bytes of the reconciled index differ from those of the index file
IndexDivergent == MarshalIndex(rootMap) # indexOrigContent

\* C18: when a run completes with an index whose bytes differ from those of
\* the index file, the divergence flag is set, and the run reports it as it
\* reports a divergent document.
C18_DivergenceIncludesIndex ==
    (Completed /\ indexValidated /\ IndexDivergent) =>
        /\ diffToValid
        /\ exitStatus = FinalStatus(TRUE, flags.diffFlag)

\* the keys of the object j are in strictly increasing order
KeysInOrder(j) ==
    j.t = "object" =>
        \A i \in 1..(Len(j.members) - 1) :
            StrLess(Unquote(j.members[i].k), Unquote(j.members[i + 1].k))

\* the writes of the index
IndexWrites == {k \in 1..Len(writes) : writes[k].file = rootFile}

\* C19, as stated: the bytes written for the index have their keys in
\* order, the indentation of a canonical document, the characters &, < and
\* > unescaped, and a trailing newline.
C19_IndexLikeDocuments ==
    \A k \in IndexWrites :
        /\ KeysInOrder(writes[k].content.tree)
        /\ writes[k].content.indent = IndentWidth
        /\ writes[k].content.newline
        /\ \A e \in HTMLEscapes : ~Contains(StringTokens(writes[k].content.tree), e)

\* C19, amended: the bytes written for the index have their keys in order,
\* an indentation of two spaces, the characters &, < and > escaped as
\* \u0026, \u003c and \u003e, and no trailing newline.
C19_IndexSerialization ==
    \A k \in IndexWrites :
        /\ KeysInOrder(writes[k].content.tree)
        /\ writes[k].content.indent = 2
        /\ ~writes[k].content.newline
        /\ \A c \in HTMLChars : Count(StringTokens(writes[k].content.tree), c) = 0

\* an index of several keys, one with an ampersand, was written
C19_Witness ==
    /\ Completed
    /\ IndexWrites # {}
    /\ Cardinality(DOMAIN rootMap.m) >= 2
    /\ S_AmpKey \in DOMAIN rootMap.m
    /\ \E k \in IndexWrites :
           writes[k].content = MarshalIndex(rootMap)
           /\ Contains(StringTokens(writes[k].content.tree), <<BS, "u", "0", "0", "2", "6">>)

\* C20: a document that is reconciled and canonicalized has exactly one
\* top-level key: an object with no key or with several never gets to
\* checkRootMap.
C20_SingleEntry ==
    pc \in {"reconcile", "compare", "write"} => Cardinality(DOMAIN rockon.m) = 1

\* the path of the index of a run: the --root flag, or root.json next to
\* the first file
IndexPathOfRun ==
    IF flags.rootFlag # NoPath THEN flags.rootFlag
    ELSE IF args # <<>> THEN SameDirIndex(args[1])
    ELSE NoPath

\* the index file does not exist and the run has not written it
IndexMissing == ~Exists(IndexPathOfRun) /\ IndexWrites = {}

\* C23: a run with --write over files that exist, whose index file does not
\* exist, does not end at the index: it neither exits for want of an index
\* nor fails in writing it, and it goes on to write the index file.
C23_IndexCreationFallback ==
    (flags.writeFlag /\ filePaths # <<>> /\ IndexMissing) =>
        ~(pc = "fatal" /\ (exitStatus = ExitNoIndex \/ fileIdx > Len(filePaths)))

\* the index as json.Unmarshal reads it from the bytes of the index file
LoadedIndex == Unmarshal(TMap(TString), indexOrigContent, MakeMap(EmptyMap)).v

\* C24: the index is read once, while the first file is processed, which
\* fixes the index path of the run; the first checkRootMap works on the index
\* as read, every later one on the map the call before it left, and the map
\* in memory is always the one the last call left.
C24_SequentialAccumulation ==
    /\ [][rootFile' # rootFile => (pc = "index" /\ fileIdx = 1)]_vars
    /\ [](pc = "index" => (fileIdx = 1 /\ ~indexValidated))
    /\ [](\A k \in 2..Len(calls) : calls[k].before = calls[k - 1].after)
    /\ []((calls # <<>>) => (calls[1].before = LoadedIndex /\ rootMap = calls[Len(calls)].after))
    /\ []((calls = <<>> /\ indexValidated) => rootMap = LoadedIndex)

C24_Witness ==
    /\ Completed
    /\ Len(calls) = 2
    /\ calls[1].after # calls[1].before
    /\ calls[2].before = calls[1].after
    /\ calls[2].after # calls[2].before

\* json.Unmarshal(fileData, &rockon) returns an error for the file read
FailsToParse == Unmarshal(RockOn, origFileContent, NilMap).err

\* C26: a file that does not decode as a Rock-on, or that is not JSON or
\* cannot be read, leaves the map of the index as it was: its handling ends
\* in the fatal exit or in the step to the next file, and checkRootMap is
\* called for files that decode only.
C26_FailedDocumentLeavesIndex ==
    /\ [][(pc = "validate" /\ fileName # rootFile /\ FailsToParse) =>
              /\ rootMap' = rootMap /\ calls' = calls
              /\ (pc' = "fatal" \/ (pc' = "read" /\ fileIdx' = fileIdx + 1))]_vars
    /\ [][(pc = "read" /\ fileIdx <= Len(filePaths)
             /\ (~fs[fileName].readable \/ ~Valid(fs[fileName].content.tree))) =>
              (rootMap' = rootMap /\ calls' = calls /\ pc' = "fatal")]_vars
    /\ [][calls' # calls => (pc = "reconcile" /\ ~FailsToParse)]_vars

\* a run that skipped a misshapen file and reconciled another one
C26_Witness ==
    /\ Completed
    /\ \E k \in 1..Len(advisories) : advisories[k] = SkippedNonJSON(Notes)
    /\ Len(calls) = 1
    /\ calls[1].filename # Notes.base
    /\ calls[1].before = LoadedIndex

\* C29: with --write the index file is written at most once, after the last
\* file of the loop and after every write of a document; a run that ends in a
\* fatal error inside the loop has written no index, whatever documents it
\* has written.
C29_IndexWrittenOnceAtEnd ==
    /\ Cardinality(IndexWrites) <= 1
    /\ \A k \in IndexWrites : k = Len(writes) /\ fileIdx > Len(filePaths)
    /\ (pc = "fatal" /\ fileIdx <= Len(filePaths)) => IndexWrites = {}

\* a run that overwrote its first document and ended in a fatal error at
\* its second
C29_Witness ==
    /\ pc = "fatal"
    /\ flags.writeFlag
    /\ Len(filePaths) = 2 /\ fileIdx = 2
    /\ Len(writes) = 1 /\ writes[1].ok /\ writes[1].file = filePaths[1]
    /\ writes[1].content # writes[1].orig
    /\ IndexWrites = {}

\* the index a call leaves when it adds the entry of the file and changes
\* nothing else
FreshEntryAdded(call) ==
    call.after = MakeMap(MapPut(call.before.m, ExpectedKey(call), call.filename))

\* C25 as the specification states it: a call that finds no entry with the
\* filename as its value logs no warning, and adds lower-cased(title) ->
\* filename.
C25_NoAdvisoryOnMissingEntry ==
    \A k \in 1..Len(calls) :
        ~calls[k].found => (calls[k].warns = <<>> /\ FreshEntryAdded(calls[k]))

\* C25: a call that finds no entry with the filename as its value logs the
\* one warning "No match in index for" with the filename, and adds
\* lower-cased(title) -> filename.
C25_MissingEntryAdvisory ==
    \A k \in 1..Len(calls) :
        ~calls[k].found =>
            (calls[k].warns = <<NoMatch(calls[k].filename)>> /\ FreshEntryAdded(calls[k]))

C25_Witness ==
    \E k \in 1..Len(calls) :
        /\ ~calls[k].found
        /\ DOMAIN calls[k].before.m # {}
        /\ ExpectedKey(calls[k]) \notin DOMAIN calls[k].before.m
        /\ calls[k].after.m[ExpectedKey(calls[k])] = calls[k].filename
        /\ calls[k].warns # <<>>

\* the keys a call may change: the key it found, and the lower-cased title
Touched(call) == (IF call.found THEN {call.keyName} ELSE {}) \cup {ExpectedKey(call)}

\* C27: a call changes at most the key it found and the lower-cased title:
\* every other entry is there before and after with the same value, and the
\* number of entries changes by one at most.
C27_ReconcileFrame ==
    \A k \in 1..Len(calls) :
        LET b == calls[k].before.m
            a == calls[k].after.m
        IN /\ \A key \in ((DOMAIN b) \cup (DOMAIN a)) \ Touched(calls[k]) :
                  key \in DOMAIN b /\ key \in DOMAIN a /\ a[key] = b[key]
           /\ Cardinality(DOMAIN a) - Cardinality(DOMAIN b) \in {0 - 1, 0, 1}

\* a call that replaced a stale key in an index that holds the file under a
\* second key, which stays
C27_Witness ==
    \E k \in 1..Len(calls) :
        /\ Mismatched(calls[k])
        /\ Cardinality(FoundKeys(calls[k].before, calls[k].filename)) >= 2
        /\ calls[k].keyName \notin DOMAIN calls[k].after.m
        /\ FoundKeys(calls[k].after, calls[k].filename) \ {ExpectedKey(calls[k])} # {}

\* C28: every text ToJSON returns is well-formed JSON that Parse accepts, and
\* parsing it gives the value it was written from.
C28_CanonicalReparsable ==
    /\ \A k \in 1..Len(canon) : Valid(canon[k].tree)
    /\ cpc # "unparsable"
    /\ (cpc = "parsed" /\ Len(canon) = 1) => rockon = Unmarshal(RockOn, doc, NilMap).v

====
